---- MODULE Spec2Model ----
(***************************************************************************)
(* Run lifecycle and trace-streaming relay of the Go backend               *)
(* (src/backend-go/worker_manager.go): the run store `runs` guarded by     *)
(* `runsMu`, run creation (handleRunCreate / createRun /                   *)
(* callPythonExecute) and stream attachment (handleWebSocket / streamRun / *)
(* getBehaviorSignal / callPythonExplain).                                 *)
(*                                                                         *)
(* Floating point values (speed multipliers, pause durations) are kept in  *)
(* thousandths: 1.0 is 1000.  Durations are whole milliseconds.            *)
(***************************************************************************)
EXTENDS Integers, Sequences, FiniteSets, TLC

\* ------------------------------------------------------------------------
\* Bounds of the model
\* ------------------------------------------------------------------------
\* number of create-run requests
NumCreates == 2
\* number of stream attachments
NumAttach == 1
\* longest trace the trace generator returns
MaxFrames == 2
\* number of signal-recording calls
NumRecords == 2
\* number of attachments that stream concurrently
NumConcurrent == 2
\* calls of handleRun in one viewer session
NumViewerRuns == 2

None == "none"

Creators == 1..NumCreates
Attachments == 1..NumAttach
Recorders == 1..NumRecords
Concurrent == 1..NumConcurrent
ViewerRuns == 1..NumViewerRuns

\* ------------------------------------------------------------------------
\* Values
\* ------------------------------------------------------------------------
\* frames are opaque to the core
Frames == {"fA", "fB"}

SeqsUpTo(S, n) == UNION {[1..k -> S] : k \in 0..n}

\* what the trace generator may answer with
Traces == SeqsUpTo(Frames, MaxFrames)

\* identifiers uuid.New() can return
UUIDs == {"run-" \o ToString(k) : k \in 1..NumCreates}

\* run identifiers an attach request may carry: "" is the absent parameter,
\* "ghost" is an identifier no create-run ever returns
RunIdInputs == UUIDs \cup {"ghost", ""}

\* create-run requests: method, whether the body decodes, the array
Requests ==
    { [method |-> "OPTIONS", decodes |-> TRUE, array |-> <<>>],
      [method |-> "GET", decodes |-> TRUE, array |-> <<>>],
      [method |-> "POST", decodes |-> FALSE, array |-> <<>>],
      [method |-> "POST", decodes |-> TRUE, array |-> <<>>],
      [method |-> "POST", decodes |-> TRUE, array |-> <<5, 2, 8>>] }

\* the ways a collaborator call fails: transport error, non-200 status,
\* undecodable body
CallErrors == {"transport", "status", "decode"}

\* an explanation the collaborator returns on success
RealExplanation ==
    [mode |-> "operational", explanation |-> "Comparing neighbours",
     short_hint |-> "", confidence_estimate |-> "high",
     followup_question |-> "Why swap?"]

Explanations == {RealExplanation}

\* the fixed fallback explanation of streamRun
FallbackExplanation ==
    [mode |-> "conceptual", explanation |-> "Processing this step...",
     short_hint |-> "Watch the visualization",
     confidence_estimate |-> "medium", followup_question |-> ""]

\* speed parameters an attach request may carry, as character sequences;
\* << >> is the absent parameter
SpeedStrs ==
    { << >>, <<"a", "b", "c">>, <<"0">>, <<"-", "1">>, <<"2">>,
      <<"0", ".", "5">> }

\* ------------------------------------------------------------------------
\* Maps
\* ------------------------------------------------------------------------
EmptyMap == [k \in {} |-> None]

Put(m, k, v) == [x \in (DOMAIN m) \cup {k} |-> IF x = k THEN v ELSE m[x]]

\* ------------------------------------------------------------------------
\* fmt.Sscanf(speedStr, "%f", &speedMultiplier)
\* ------------------------------------------------------------------------
DigitValue ==
    [c \in {"0", "1", "2", "3", "4", "5", "6", "7", "8", "9"} |->
        CASE c = "0" -> 0 [] c = "1" -> 1 [] c = "2" -> 2 [] c = "3" -> 3
          [] c = "4" -> 4 [] c = "5" -> 5 [] c = "6" -> 6 [] c = "7" -> 7
          [] c = "8" -> 8 [] c = "9" -> 9]

IsDigit(c) == c \in DOMAIN DigitValue

\* first position at or after p that holds no digit
RECURSIVE DigitsEnd(_, _)
DigitsEnd(s, p) ==
    IF p <= Len(s) /\ IsDigit(s[p]) THEN DigitsEnd(s, p + 1) ELSE p

\* value of the digits s[from .. to-1]
RECURSIVE DigitsValue(_, _, _)
DigitsValue(s, from, to) ==
    IF from >= to THEN 0
    ELSE DigitsValue(s, from, to - 1) * 10 + DigitValue[s[to - 1]]

\* the fraction digits s[from .. to-1] in thousandths (three digits kept)
FractionMilli(s, from, to) ==
    LET d(k) == IF from + k < to THEN DigitValue[s[from + k]] ELSE 0
    IN d(0) * 100 + d(1) * 10 + d(2)

\* the float token at the start of s: sign, digits, period, digits.
\* [ok, value]: ok is FALSE when the token holds no digit (the scan fails
\* and assigns nothing)
ScanFloat(s) ==
    LET signed == Len(s) >= 1 /\ s[1] \in {"+", "-"}
        p0 == IF signed THEN 2 ELSE 1
        p1 == DigitsEnd(s, p0)
        dotted == p1 <= Len(s) /\ s[p1] = "."
        p2 == IF dotted THEN DigitsEnd(s, p1 + 1) ELSE p1
        ndigits == (p1 - p0) + (IF dotted THEN p2 - (p1 + 1) ELSE 0)
        mag == DigitsValue(s, p0, p1) * 1000
               + (IF dotted THEN FractionMilli(s, p1 + 1, p2) ELSE 0)
    IN [ok |-> ndigits > 0,
        value |-> IF signed /\ s[1] = "-" THEN 0 - mag ELSE mag]

\* the variable after Sscanf: the scanned value, or unchanged on failure
Sscanf(s, current) ==
    IF ScanFloat(s).ok THEN ScanFloat(s).value ELSE current

\* handleWebSocket's speed parameter handling
ParseSpeed(speedStr) ==
    IF speedStr # << >> THEN Sscanf(speedStr, 1000) ELSE 1000

\* ------------------------------------------------------------------------
\* time.Duration(baseDelay/speedMultiplier) * time.Millisecond
\* ------------------------------------------------------------------------
baseDelay == 1000

\* float division truncated toward zero, in milliseconds
TruncDiv(a, b) ==
    IF b > 0 THEN a \div b ELSE 0 - (a \div (0 - b))

\* 1000.0/0 is +Inf, and the conversion of +Inf to an integer is
\* implementation-dependent: the smallest int64 (the product with 1e6 then
\* wraps to 0) or the largest one (the product wraps to -1ms)
DivZeroDelays == {0, 0 - 1}

FrameDelays(speedMultiplier) ==
    IF speedMultiplier = 0 THEN DivZeroDelays
    ELSE {TruncDiv(baseDelay * 1000, speedMultiplier)}

\* ------------------------------------------------------------------------
\* BehaviorSignal; an optional *int is << >> (nil) or <<v>>
\* ------------------------------------------------------------------------
AllDefaultsSignal ==
    [pauseDuration |-> 0, replayCount |-> 0, speedMultiplier |-> 1000,
     hoverIndex |-> << >>, scrollDepth |-> << >>]

SlowViewerSignal ==
    [pauseDuration |-> 2500, replayCount |-> 2, speedMultiplier |-> 3000,
     hoverIndex |-> <<1>>, scrollDepth |-> << >>]

\* the signals a recording call may carry
Signals == {AllDefaultsSignal, SlowViewerSignal}

\* ------------------------------------------------------------------------
\* getBehaviorSignal: the summary for the signal map of a run
\* ------------------------------------------------------------------------
DefaultSummary ==
    [pauseDuration |-> 0, replayCount |-> 0, speedMultiplier |-> 1000]

getBehaviorSignal(exists, behaviorSignals, stepIndex) ==
    IF ~exists THEN DefaultSummary
    ELSE IF stepIndex \in DOMAIN behaviorSignals
         THEN LET signal == behaviorSignals[stepIndex]
              IN [pauseDuration |-> signal.pauseDuration,
                  replayCount |-> signal.replayCount,
                  speedMultiplier |-> signal.speedMultiplier,
                  hoverIndex |-> signal.hoverIndex,
                  scrollDepth |-> signal.scrollDepth]
         ELSE DefaultSummary

\* userBehavior["speedMultiplier"] = speedMultiplier
WithSpeed(userBehavior, speedMultiplier) ==
    [userBehavior EXCEPT !.speedMultiplier = speedMultiplier]

\* ------------------------------------------------------------------------
\* State
\* ------------------------------------------------------------------------
VARIABLES
    runs,             \* the run table: runId -> RunState
    runsMu,           \* the RWMutex: [readers, writer]
    issued,           \* identifiers uuid.New() has returned
    generatorCalls,   \* trace generator calls made for each request
    crashed,          \* the process was terminated by a fatal runtime error
    env,              \* what the clients send: [runIds, speeds], fixed
    \* one create-run request per creator
    cpc,              \* position in handleRunCreate / createRun
    request,          \* the request being served
    trace,            \* createRun's local trace
    createErr,        \* createRun's local err
    run,              \* createRun's local *RunState
    response,         \* the HTTP response: [status, runId]
    \* one attach request per attachment
    pc,               \* position in handleWebSocket / streamRun
    runID,            \* the runId parameter
    speedStr,         \* the speed parameter
    speedMultiplier,  \* the multiplier passed to streamRun
    connOpen,         \* the viewer connection accepts writes
    exists,           \* the result of the last table lookup
    frameDelay,       \* streamRun's frameDelay, in ms
    i,                \* the loop index of streamRun
    userBehavior,     \* the summary built for the current step
    explanation,      \* the explanation to send for the current step
    err,              \* the error streamRun returned
    writes,           \* WriteJSON calls so far: [type, data, ok]
    explainCalls,     \* callPythonExplain calls so far
    waits,            \* time.Sleep calls so far (their durations)
    \* one signal-recording call per recorder
    rpc,              \* position in the recording call
    rarg,             \* its arguments: [runID, stepIndex, signal]
    \* the viewer client (App.jsx)
    runStatus,        \* idle, running, paused, completed, error
    runId,            \* the runId state: the run shown
    vpc,              \* per handleRun call: idle, fetching, done
    ws,               \* per connection: [readyState, stream, next]
    wsRef,            \* wsRef.current: a connection, or 0 for null
    pauseStartRef,    \* pauseStartRef.current is set
    traceFrames,      \* the frames received so far
    received          \* the types of the messages onmessage has handled

storeVars == <<runs, runsMu, issued, generatorCalls, crashed, env>>
createVars == <<cpc, request, trace, createErr, run, response>>
relayVars == <<pc, runID, speedStr, speedMultiplier, connOpen, exists,
               frameDelay, i, userBehavior, explanation, err, writes,
               explainCalls, waits>>
recordVars == <<rpc, rarg>>
viewerVars == <<runStatus, runId, vpc, ws, wsRef, pauseStartRef, traceFrames,
                received>>
vars == <<storeVars, createVars, relayVars, recordVars, viewerVars>>

NoResponse == [status |-> 0, runId |-> None]

\* a connection the viewer has not created yet
NoSocket == [readyState |-> "none", stream |-> << >>, next |-> 1]

NoRequest == [method |-> None, decodes |-> FALSE, array |-> << >>]

Reply(status, id) == [status |-> status, runId |-> id]

\* (a createRun that loses the last frame)
NewRunStateTruncated(id, frames) ==
    [runID |-> id,
     trace |-> IF frames = << >> THEN frames
               ELSE SubSeq(frames, 1, Len(frames) - 1),
     currentStep |-> 0, behaviorSignals |-> EmptyMap]

\* the RunState createRun builds
NewRunState(id, frames) ==
    [runID |-> id, trace |-> frames, currentStep |-> 0,
     behaviorSignals |-> EmptyMap]

\* the state with the given run table, and the requests that are to come
InitWith(creators, attachments, recorders, table, clients) ==
    /\ runs = table
    /\ env = clients
    /\ runsMu = [readers |-> {}, writer |-> None]
    /\ issued = DOMAIN table
    /\ generatorCalls = [c \in creators |-> 0]
    /\ crashed = FALSE
    /\ cpc = [c \in creators |-> "idle"]
    /\ request = [c \in creators |-> NoRequest]
    /\ trace = [c \in creators |-> None]
    /\ createErr = [c \in creators |-> None]
    /\ run = [c \in creators |-> None]
    /\ response = [c \in creators |-> NoResponse]
    /\ pc = [a \in attachments |-> "idle"]
    /\ runID = [a \in attachments |-> None]
    /\ speedStr = [a \in attachments |-> << >>]
    /\ speedMultiplier = [a \in attachments |-> 1000]
    /\ connOpen = [a \in attachments |-> FALSE]
    /\ exists = [a \in attachments |-> FALSE]
    /\ frameDelay = [a \in attachments |-> 0]
    /\ i = [a \in attachments |-> 0]
    /\ userBehavior = [a \in attachments |-> << >>]
    /\ explanation = [a \in attachments |-> << >>]
    /\ err = [a \in attachments |-> None]
    /\ writes = [a \in attachments |-> << >>]
    /\ explainCalls = [a \in attachments |-> << >>]
    /\ waits = [a \in attachments |-> << >>]
    /\ rpc = [r \in recorders |-> "idle"]
    /\ rarg = [r \in recorders |-> None]
    /\ runStatus = "idle"
    /\ runId = None
    /\ vpc = [k \in ViewerRuns |-> "idle"]
    /\ ws = [k \in ViewerRuns |-> NoSocket]
    /\ wsRef = 0
    /\ pauseStartRef = FALSE
    /\ traceFrames = << >>
    /\ received = << >>

\* the state after start-up: the run table is empty
Init ==
    InitWith(Creators, Attachments, {}, EmptyMap,
             [runIds |-> RunIdInputs, speeds |-> SpeedStrs])

\* ------------------------------------------------------------------------
\* runsMu
\* ------------------------------------------------------------------------
CanRLock == runsMu.writer = None
CanLock == runsMu.writer = None /\ runsMu.readers = {}

\* (a lookup that takes the lock exclusively)
RLockExclusive(p) == [runsMu EXCEPT !.writer = p]

RLock(p) == [runsMu EXCEPT !.readers = @ \cup {p}]
\* (an unlock that leaves the reader registered)
RUnlockKept(p) == runsMu

RUnlock(p) == [runsMu EXCEPT !.readers = @ \ {p}]
Lock(p) == [runsMu EXCEPT !.writer = p]
Unlock == [runsMu EXCEPT !.writer = None]

\* ------------------------------------------------------------------------
\* Create run: handleRunCreate, createRun, callPythonExecute
\* ------------------------------------------------------------------------
\* (a handler without the empty-array check)
RequestStatusUnvalidated(rq) ==
    IF rq.method = "OPTIONS" THEN 200
    ELSE IF rq.method # "POST" THEN 405
    ELSE IF ~rq.decodes THEN 400
    ELSE 0

\* handleRunCreate before createRun: the status it answers with at once
\* (OPTIONS, wrong method, undecodable body, empty array), or 0 to go on
RequestStatus(rq) ==
    IF rq.method = "OPTIONS" THEN 200
    ELSE IF rq.method # "POST" THEN 405
    ELSE IF ~rq.decodes THEN 400
    ELSE IF Len(rq.array) = 0 THEN 400
    ELSE 0

\* handleRunCreate up to the call of createRun
HandleRunCreate(c) ==
    /\ ~crashed
    /\ cpc[c] = "idle"
    /\ \E rq \in Requests :
        /\ request' = [request EXCEPT ![c] = rq]
        /\ IF RequestStatus(rq) # 0
           THEN /\ response' = [response EXCEPT ![c] =
                                   Reply(RequestStatus(rq), None)]
                /\ cpc' = [cpc EXCEPT ![c] = "done"]
           ELSE /\ cpc' = [cpc EXCEPT ![c] = "execute"]
                /\ UNCHANGED response
    /\ UNCHANGED <<storeVars, trace, createErr, run, relayVars, recordVars,
                   viewerVars>>

\* (a createRun that publishes its run before the generator has answered)
CallPythonExecuteFailsLeavingRun(c) ==
    /\ ~crashed
    /\ cpc[c] = "execute"
    /\ generatorCalls' = [generatorCalls EXCEPT ![c] = @ + 1]
    /\ \E e \in CallErrors : createErr' = [createErr EXCEPT ![c] = e]
    /\ \E id \in UUIDs \ issued :
        /\ issued' = issued \cup {id}
        /\ runs' = Put(runs, id, NewRunState(id, << >>))
    /\ response' = [response EXCEPT ![c] = Reply(500, None)]
    /\ cpc' = [cpc EXCEPT ![c] = "done"]
    /\ UNCHANGED <<env, runsMu, crashed, request, trace, run, relayVars,
                   recordVars, viewerVars>>

\* (a createRun that calls the generator again after a failure)
CallPythonExecuteFailsRetrying(c) ==
    /\ ~crashed
    /\ cpc[c] = "execute"
    /\ generatorCalls[c] < 2
    /\ generatorCalls' = [generatorCalls EXCEPT ![c] = @ + 1]
    /\ \E e \in CallErrors : createErr' = [createErr EXCEPT ![c] = e]
    /\ IF generatorCalls[c] = 0
       THEN UNCHANGED <<response, cpc>>
       ELSE /\ response' = [response EXCEPT ![c] = Reply(500, None)]
            /\ cpc' = [cpc EXCEPT ![c] = "done"]
    /\ UNCHANGED <<env, runs, runsMu, issued, crashed, request, trace, run,
                   relayVars, recordVars, viewerVars>>

\* createRun: the trace generator call fails (unreachable, non-200 status
\* or undecodable body); handleRunCreate answers 500
CallPythonExecuteFails(c) ==
    /\ ~crashed
    /\ cpc[c] = "execute"
    /\ generatorCalls' = [generatorCalls EXCEPT ![c] = @ + 1]
    /\ \E e \in CallErrors : createErr' = [createErr EXCEPT ![c] = e]
    /\ response' = [response EXCEPT ![c] = Reply(500, None)]
    /\ cpc' = [cpc EXCEPT ![c] = "done"]
    /\ UNCHANGED <<env, runs, runsMu, issued, crashed, request, trace, run,
                   relayVars, recordVars, viewerVars>>

\* createRun: the trace generator answers with a trace
CallPythonExecute(c) ==
    /\ ~crashed
    /\ cpc[c] = "execute"
    /\ generatorCalls' = [generatorCalls EXCEPT ![c] = @ + 1]
    /\ \E t \in Traces : trace' = [trace EXCEPT ![c] = t]
    /\ cpc' = [cpc EXCEPT ![c] = "newRun"]
    /\ UNCHANGED <<env, runs, runsMu, issued, crashed, request, createErr,
                   run, response, relayVars, recordVars, viewerVars>>

\* (a createRun that puts the identifier into the table before the run is
\* built)
CreateRunNewPublishing(c) ==
    /\ ~crashed
    /\ cpc[c] = "newRun"
    /\ \E id \in UUIDs \ issued :
        /\ issued' = issued \cup {id}
        /\ run' = [run EXCEPT ![c] = NewRunState(id, trace[c])]
        /\ runs' = Put(runs, id, NewRunState(id, << >>))
    /\ cpc' = [cpc EXCEPT ![c] = "store"]
    /\ UNCHANGED <<env, runsMu, generatorCalls, crashed, request,
                   trace, createErr, response, relayVars, recordVars,
                   viewerVars>>

\* (a createRun whose identifiers may repeat)
CreateRunNewReusing(c) ==
    /\ ~crashed
    /\ cpc[c] = "newRun"
    /\ \E id \in UUIDs :
        /\ issued' = issued \cup {id}
        /\ run' = [run EXCEPT ![c] = NewRunState(id, trace[c])]
    /\ cpc' = [cpc EXCEPT ![c] = "store"]
    /\ UNCHANGED <<env, runs, runsMu, generatorCalls, crashed, request,
                   trace, createErr, response, relayVars, recordVars,
                   viewerVars>>

\* createRun: runID := uuid.New().String(); run := &RunState{...}
CreateRunNew(c) ==
    /\ ~crashed
    /\ cpc[c] = "newRun"
    /\ \E id \in UUIDs \ issued :
        /\ issued' = issued \cup {id}
        /\ run' = [run EXCEPT ![c] = NewRunState(id, trace[c])]
    /\ cpc' = [cpc EXCEPT ![c] = "store"]
    /\ UNCHANGED <<env, runs, runsMu, generatorCalls, crashed, request,
                   trace, createErr, response, relayVars, recordVars,
                   viewerVars>>

\* createRun: runsMu.Lock(); runs[runID] = run
CreateRunStore(c) ==
    /\ ~crashed
    /\ cpc[c] = "store"
    /\ CanLock
    /\ runsMu' = Lock("create-" \o ToString(c))
    /\ runs' = Put(runs, run[c].runID, run[c])
    /\ cpc' = [cpc EXCEPT ![c] = "unlock"]
    /\ UNCHANGED <<env, issued, generatorCalls, crashed, request, trace,
                   createErr, run, response, relayVars, recordVars,
                   viewerVars>>

\* createRun: runsMu.Unlock(); handleRunCreate answers with the runId
CreateRunUnlock(c) ==
    /\ ~crashed
    /\ cpc[c] = "unlock"
    /\ runsMu' = Unlock
    /\ response' = [response EXCEPT ![c] = Reply(200, run[c].runID)]
    /\ cpc' = [cpc EXCEPT ![c] = "done"]
    /\ UNCHANGED <<env, runs, issued, generatorCalls, crashed, request,
                   trace, createErr, run, relayVars, recordVars, viewerVars>>

\* ------------------------------------------------------------------------
\* Attach stream: handleWebSocket, streamRun, getBehaviorSignal,
\* callPythonExplain
\* ------------------------------------------------------------------------
Relay(a) == "relay-" \o ToString(a)

Message(type, data, ok) == [type |-> type, data |-> data, ok |-> ok]

\* conn.WriteJSON: the write succeeds while the viewer connection is open
WriteJSON(a, type, data) ==
    Append(writes[a], Message(type, data, connOpen[a]))

\* (a relay that goes on after a failed write)
AfterWriteIgnoringFailure(ok, next) == next

\* where streamRun goes after a write: on, or out with the error
AfterWrite(ok, next) == IF ok THEN next ELSE "sendError"

\* (a streamRun that returns nil after a failed write)
ErrAfterWriteSwallowed(ok, old, failure) == old

\* the error streamRun returns after a write
ErrAfterWrite(ok, old, failure) == IF ok THEN old ELSE failure

\* the run a relay looked up (its *RunState)
RunOf(a) == runs[runID[a]]

\* (a loop that hands out its first frame at every index)
FrameAtFirst(frames, k) == frames[1]

\* the frame the range loop of streamRun yields at index k
FrameAt(frames, k) == frames[k + 1]

\* (a handler that upgrades without checking runId)
HandleWebSocketUnchecked(a) ==
    /\ ~crashed
    /\ pc[a] = "idle"
    /\ \E id \in env.runIds, str \in env.speeds, upgraded \in BOOLEAN :
        /\ runID' = [runID EXCEPT ![a] = id]
        /\ speedStr' = [speedStr EXCEPT ![a] = str]
        /\ speedMultiplier' = [speedMultiplier EXCEPT ![a] = ParseSpeed(str)]
        /\ connOpen' = [connOpen EXCEPT ![a] = upgraded]
        /\ pc' = [pc EXCEPT ![a] =
                     IF upgraded THEN "lookup" ELSE "upgradeFailed"]
    /\ UNCHANGED <<storeVars, createVars, exists, frameDelay, i,
                   userBehavior, explanation, err, writes, explainCalls,
                   waits, recordVars, viewerVars>>

\* handleWebSocket up to the call of streamRun: the runId check, the speed
\* parameter, the upgrade
HandleWebSocket(a) ==
    /\ ~crashed
    /\ pc[a] = "idle"
    /\ \E id \in env.runIds, str \in env.speeds, upgraded \in BOOLEAN :
        /\ runID' = [runID EXCEPT ![a] = id]
        /\ IF id = ""
           THEN /\ pc' = [pc EXCEPT ![a] = "rejected"]
                /\ UNCHANGED <<speedStr, speedMultiplier, connOpen>>
           ELSE /\ speedStr' = [speedStr EXCEPT ![a] = str]
                /\ speedMultiplier' =
                       [speedMultiplier EXCEPT ![a] = ParseSpeed(str)]
                /\ connOpen' = [connOpen EXCEPT ![a] = upgraded]
                /\ pc' = [pc EXCEPT ![a] =
                             IF upgraded THEN "lookup" ELSE "upgradeFailed"]
    /\ UNCHANGED <<storeVars, createVars, exists, frameDelay, i,
                   userBehavior, explanation, err, writes, explainCalls,
                   waits, recordVars, viewerVars>>

\* streamRun: runsMu.RLock(); run, exists := runs[runID]
StreamRunRLock(a) ==
    /\ ~crashed
    /\ pc[a] = "lookup"
    /\ CanRLock
    /\ runsMu' = RLock(Relay(a))
    /\ exists' = [exists EXCEPT ![a] = runID[a] \in DOMAIN runs]
    /\ pc' = [pc EXCEPT ![a] = "lookupUnlock"]
    /\ UNCHANGED <<env, runs, issued, generatorCalls, crashed, createVars,
                   runID, speedStr, speedMultiplier, connOpen, frameDelay, i,
                   userBehavior, explanation, err, writes, explainCalls,
                   waits, recordVars, viewerVars>>

\* (a loop that waits once before it ends an empty trace)
LoopAtWaitingFirst(a, k) ==
    IF k < Len(RunOf(a).trace) THEN "sendTrace"
    ELSE IF k = 0 THEN "sleep" ELSE "sendEnd"

\* (a loop that stops one frame early)
LoopAtShort(a, k) ==
    IF k + 1 < Len(RunOf(a).trace) THEN "sendTrace" ELSE "sendEnd"

\* where the range loop of streamRun goes with index k
LoopAt(a, k) ==
    IF k < Len(RunOf(a).trace) THEN "sendTrace" ELSE "sendEnd"

\* streamRun: runsMu.RUnlock(); the not-found return; frameDelay; the loop
\* starts
StreamRunRUnlock(a) ==
    /\ ~crashed
    /\ pc[a] = "lookupUnlock"
    /\ runsMu' = RUnlock(Relay(a))
    /\ IF ~exists[a]
       THEN /\ err' = [err EXCEPT ![a] = "run not found"]
            /\ pc' = [pc EXCEPT ![a] = "sendError"]
            /\ UNCHANGED <<frameDelay, i>>
       ELSE /\ \E d \in FrameDelays(speedMultiplier[a]) :
                 frameDelay' = [frameDelay EXCEPT ![a] = d]
            /\ i' = [i EXCEPT ![a] = 0]
            /\ pc' = [pc EXCEPT ![a] = LoopAt(a, 0)]
            /\ UNCHANGED err
    /\ UNCHANGED <<env, runs, issued, generatorCalls, crashed, createVars,
                   runID, speedStr, speedMultiplier, connOpen, exists,
                   userBehavior, explanation, writes, explainCalls, waits,
                   recordVars, viewerVars>>

\* (a relay that keeps its position in the run's currentStep)
SendTraceAdvancingStep(a) ==
    /\ ~crashed
    /\ pc[a] = "sendTrace"
    /\ writes' = [writes EXCEPT ![a] =
                     WriteJSON(a, "TRACE", FrameAt(RunOf(a).trace, i[a]))]
    /\ runs' = [runs EXCEPT ![runID[a]].currentStep = i[a] + 1]
    /\ pc' = [pc EXCEPT ![a] = AfterWrite(connOpen[a], "signalLookup")]
    /\ err' = [err EXCEPT ![a] =
                  ErrAfterWrite(connOpen[a], @, "failed to send trace")]
    /\ UNCHANGED <<env, runsMu, issued, generatorCalls, crashed, createVars,
                   runID, speedStr, speedMultiplier, connOpen, exists,
                   frameDelay, i, userBehavior, explanation, explainCalls,
                   waits, recordVars, viewerVars>>

\* streamRun: conn.WriteJSON(traceMsg)
SendTrace(a) ==
    /\ ~crashed
    /\ pc[a] = "sendTrace"
    /\ writes' = [writes EXCEPT ![a] =
                     WriteJSON(a, "TRACE", FrameAt(RunOf(a).trace, i[a]))]
    /\ pc' = [pc EXCEPT ![a] = AfterWrite(connOpen[a], "signalLookup")]
    /\ err' = [err EXCEPT ![a] =
                  ErrAfterWrite(connOpen[a], @, "failed to send trace")]
    /\ UNCHANGED <<storeVars, createVars, runID, speedStr, speedMultiplier,
                   connOpen, exists, frameDelay, i, userBehavior,
                   explanation, explainCalls, waits, recordVars, viewerVars>>

\* getBehaviorSignal: runsMu.RLock(); run, exists := runs[runID]
GetBehaviorSignalRLock(a) ==
    /\ ~crashed
    /\ pc[a] = "signalLookup"
    /\ CanRLock
    /\ runsMu' = RLock(Relay(a))
    /\ exists' = [exists EXCEPT ![a] = runID[a] \in DOMAIN runs]
    /\ pc' = [pc EXCEPT ![a] = "signalUnlock"]
    /\ UNCHANGED <<env, runs, issued, generatorCalls, crashed, createVars,
                   runID, speedStr, speedMultiplier, connOpen, frameDelay, i,
                   userBehavior, explanation, err, writes, explainCalls,
                   waits, recordVars, viewerVars>>

\* getBehaviorSignal: runsMu.RUnlock()
GetBehaviorSignalRUnlock(a) ==
    /\ ~crashed
    /\ pc[a] = "signalUnlock"
    /\ runsMu' = RUnlock(Relay(a))
    /\ pc' = [pc EXCEPT ![a] = "signalRead"]
    /\ UNCHANGED <<env, runs, issued, generatorCalls, crashed, createVars,
                   runID, speedStr, speedMultiplier, connOpen, exists,
                   frameDelay, i, userBehavior, explanation, err, writes,
                   explainCalls, waits, recordVars, viewerVars>>

\* a signal-recording call is writing the signal map of run id
MapWriteInProgress(id) ==
    \E r \in DOMAIN rpc : rpc[r] = "writing" /\ rarg[r].runID = id

\* the summary streamRun builds from what getBehaviorSignal read
BuildSummary(a, found, behaviorSignals) ==
    WithSpeed(getBehaviorSignal(found, behaviorSignals, i[a]),
              speedMultiplier[a])

\* getBehaviorSignal: the read of run.BehaviorSignals[stepIndex], made
\* without the lock, and the summary; streamRun overrides the multiplier
GetBehaviorSignalRead(a) ==
    /\ ~crashed
    /\ pc[a] = "signalRead"
    /\ ~(exists[a] /\ MapWriteInProgress(runID[a]))
    /\ userBehavior' = [userBehavior EXCEPT ![a] =
           BuildSummary(a, exists[a],
                        IF exists[a] THEN RunOf(a).behaviorSignals
                        ELSE EmptyMap)]
    /\ pc' = [pc EXCEPT ![a] = "explain"]
    /\ UNCHANGED <<storeVars, createVars, runID, speedStr, speedMultiplier,
                   connOpen, exists, frameDelay, i, explanation, err, writes,
                   explainCalls, waits, recordVars, viewerVars>>

\* the signal maps an unlocked read may see while a recording call is
\* writing the map: the map before the write, the map after it, or no entry
RacedViews(id) ==
    {runs[id].behaviorSignals, EmptyMap} \cup
    {Put(runs[id].behaviorSignals, rarg[r].stepIndex, rarg[r].signal) :
        r \in {q \in DOMAIN rpc : rpc[q] = "writing" /\ rarg[q].runID = id}}

\* getBehaviorSignal: the unlocked read while the map is being written
GetBehaviorSignalReadRaced(a) ==
    /\ ~crashed
    /\ pc[a] = "signalRead"
    /\ exists[a] /\ MapWriteInProgress(runID[a])
    /\ \E view \in RacedViews(runID[a]) :
        userBehavior' = [userBehavior EXCEPT ![a] =
                            BuildSummary(a, TRUE, view)]
    /\ pc' = [pc EXCEPT ![a] = "explain"]
    /\ UNCHANGED <<storeVars, createVars, runID, speedStr, speedMultiplier,
                   connOpen, exists, frameDelay, i, explanation, err, writes,
                   explainCalls, waits, recordVars, viewerVars>>

\* getBehaviorSignal: the runtime detects the concurrent map read and map
\* write and terminates the process
GetBehaviorSignalReadFatal(a) ==
    /\ ~crashed
    /\ pc[a] = "signalRead"
    /\ exists[a] /\ MapWriteInProgress(runID[a])
    /\ crashed' = TRUE
    /\ UNCHANGED <<env, runs, runsMu, issued, generatorCalls, createVars,
                   relayVars, recordVars, viewerVars>>

\* (a relay that posts the first frame with every explanation request)
CallPythonExplainStaleFrame(a) ==
    /\ ~crashed
    /\ pc[a] = "explain"
    /\ explainCalls' = [explainCalls EXCEPT ![a] =
           Append(@, [step |-> i[a], frame |-> FrameAt(RunOf(a).trace, 0),
                      userBehavior |-> userBehavior[a],
                      result |-> "pending"])]
    /\ pc' = [pc EXCEPT ![a] = "explaining"]
    /\ UNCHANGED <<storeVars, createVars, runID, speedStr, speedMultiplier,
                   connOpen, exists, frameDelay, i, userBehavior,
                   explanation, err, writes, waits, recordVars, viewerVars>>

\* (a relay that does not wait for the collaborator's answer)
CallPythonExplainAsync(a) ==
    /\ ~crashed
    /\ pc[a] = "explain"
    /\ explainCalls' = [explainCalls EXCEPT ![a] =
           Append(@, [step |-> i[a], frame |-> FrameAt(RunOf(a).trace, i[a]),
                      userBehavior |-> userBehavior[a],
                      result |-> "pending"])]
    /\ explanation' = [explanation EXCEPT ![a] = FallbackExplanation]
    /\ pc' = [pc EXCEPT ![a] = "sendExplanation"]
    /\ UNCHANGED <<storeVars, createVars, runID, speedStr, speedMultiplier,
                   connOpen, exists, frameDelay, i, userBehavior,
                   err, writes, waits, recordVars, viewerVars>>

\* callPythonExplain: the request is posted
CallPythonExplain(a) ==
    /\ ~crashed
    /\ pc[a] = "explain"
    /\ explainCalls' = [explainCalls EXCEPT ![a] =
           Append(@, [step |-> i[a], frame |-> FrameAt(RunOf(a).trace, i[a]),
                      userBehavior |-> userBehavior[a],
                      result |-> "pending"])]
    /\ pc' = [pc EXCEPT ![a] = "explaining"]
    /\ UNCHANGED <<storeVars, createVars, runID, speedStr, speedMultiplier,
                   connOpen, exists, frameDelay, i, userBehavior,
                   explanation, err, writes, waits, recordVars, viewerVars>>

\* (a relay that has no fallback)
ExplanationForNoFallback(outcome, result) == result

\* the explanation streamRun uses for a call's outcome
ExplanationFor(outcome, result) ==
    IF outcome = "ok" THEN result ELSE FallbackExplanation

\* the last call's outcome as streamRun sees it: err == nil or not
SetResult(calls, outcome) ==
    [calls EXCEPT ![Len(calls)].result =
        IF outcome = "ok" THEN "ok" ELSE "error"]

\* (a relay that returns the collaborator's error)
ExplainReturnsSurfacing(a) ==
    /\ ~crashed
    /\ pc[a] = "explaining"
    /\ \E outcome \in {"ok"} \cup CallErrors, result \in Explanations :
        /\ explanation' = [explanation EXCEPT ![a] =
                              ExplanationFor(outcome, result)]
        /\ explainCalls' = [explainCalls EXCEPT ![a] = SetResult(@, outcome)]
        /\ pc' = [pc EXCEPT ![a] =
                     IF outcome = "ok" THEN "sendExplanation"
                     ELSE "sendError"]
        /\ err' = [err EXCEPT ![a] =
                      IF outcome = "ok" THEN @ ELSE "explanation failed"]
    /\ UNCHANGED <<storeVars, createVars, runID, speedStr, speedMultiplier,
                   connOpen, exists, frameDelay, i, userBehavior,
                   writes, waits, recordVars, viewerVars>>

\* (a relay that calls again after a failed call)
ExplainReturnsRetrying(a) ==
    /\ ~crashed
    /\ pc[a] = "explaining"
    /\ \E outcome \in {"ok"} \cup CallErrors, result \in Explanations :
        /\ explanation' = [explanation EXCEPT ![a] =
                              ExplanationFor(outcome, result)]
        /\ explainCalls' = [explainCalls EXCEPT ![a] = SetResult(@, outcome)]
        /\ pc' = [pc EXCEPT ![a] =
                     IF outcome = "ok" \/ Len(explainCalls[a]) > i[a] + 1
                     THEN "sendExplanation" ELSE "explain"]
    /\ UNCHANGED <<storeVars, createVars, runID, speedStr, speedMultiplier,
                   connOpen, exists, frameDelay, i, userBehavior, err,
                   writes, waits, recordVars, viewerVars>>

\* callPythonExplain returns: a decoded explanation, or an error and the
\* fallback
ExplainReturns(a) ==
    /\ ~crashed
    /\ pc[a] = "explaining"
    /\ \E outcome \in {"ok"} \cup CallErrors, result \in Explanations :
        /\ explanation' = [explanation EXCEPT ![a] =
                              ExplanationFor(outcome, result)]
        /\ explainCalls' = [explainCalls EXCEPT ![a] = SetResult(@, outcome)]
    /\ pc' = [pc EXCEPT ![a] = "sendExplanation"]
    /\ UNCHANGED <<storeVars, createVars, runID, speedStr, speedMultiplier,
                   connOpen, exists, frameDelay, i, userBehavior, err,
                   writes, waits, recordVars, viewerVars>>

\* (a relay that keeps the explanation it has sent on the run)
SendExplanationStoring(a) ==
    /\ ~crashed
    /\ pc[a] = "sendExplanation"
    /\ writes' = [writes EXCEPT ![a] =
                     WriteJSON(a, "EXPLANATION", explanation[a])]
    /\ runs' = [runs EXCEPT ![runID[a]] =
                   [runID |-> @.runID, trace |-> @.trace,
                    currentStep |-> @.currentStep,
                    behaviorSignals |-> @.behaviorSignals,
                    explanation |-> explanation[a]]]
    /\ pc' = [pc EXCEPT ![a] = AfterWrite(connOpen[a], "sleep")]
    /\ err' = [err EXCEPT ![a] =
                  ErrAfterWrite(connOpen[a], @, "failed to send explanation")]
    /\ UNCHANGED <<env, runsMu, issued, generatorCalls, crashed, createVars,
                   runID, speedStr, speedMultiplier, connOpen, exists,
                   frameDelay, i, userBehavior, explanation, explainCalls,
                   waits, recordVars, viewerVars>>

\* (a relay that does not look at the result of the EXPLANATION write)
SendExplanationUnchecked(a) ==
    /\ ~crashed
    /\ pc[a] = "sendExplanation"
    /\ writes' = [writes EXCEPT ![a] =
                     WriteJSON(a, "EXPLANATION", explanation[a])]
    /\ pc' = [pc EXCEPT ![a] = "sleep"]
    /\ UNCHANGED <<storeVars, createVars, runID, speedStr, speedMultiplier,
                   connOpen, exists, frameDelay, i, userBehavior,
                   explanation, err, explainCalls, waits, recordVars,
                   viewerVars>>

\* streamRun: conn.WriteJSON(explainMsg)
SendExplanation(a) ==
    /\ ~crashed
    /\ pc[a] = "sendExplanation"
    /\ writes' = [writes EXCEPT ![a] =
                     WriteJSON(a, "EXPLANATION", explanation[a])]
    /\ pc' = [pc EXCEPT ![a] = AfterWrite(connOpen[a], "sleep")]
    /\ err' = [err EXCEPT ![a] =
                  ErrAfterWrite(connOpen[a], @, "failed to send explanation")]
    /\ UNCHANGED <<storeVars, createVars, runID, speedStr, speedMultiplier,
                   connOpen, exists, frameDelay, i, userBehavior,
                   explanation, explainCalls, waits, recordVars, viewerVars>>

\* (a loop that does not wait after its last frame)
SleepNotAfterLast(a) ==
    /\ ~crashed
    /\ pc[a] = "sleep"
    /\ waits' = [waits EXCEPT ![a] =
                    IF i[a] + 1 < Len(RunOf(a).trace)
                    THEN Append(@, frameDelay[a]) ELSE @]
    /\ i' = [i EXCEPT ![a] = @ + 1]
    /\ pc' = [pc EXCEPT ![a] = LoopAt(a, i[a] + 1)]
    /\ UNCHANGED <<storeVars, createVars, runID, speedStr, speedMultiplier,
                   connOpen, exists, frameDelay, userBehavior, explanation,
                   err, writes, explainCalls, recordVars, viewerVars>>

\* (a wait that never ends)
SleepNeverEnds(a) ==
    /\ pc[a] = "sleep"
    /\ FALSE
    /\ UNCHANGED vars

\* (a loop whose index is shared by the attachments)
SleepSharedCursor(a) ==
    /\ ~crashed
    /\ pc[a] = "sleep"
    /\ waits' = [waits EXCEPT ![a] = Append(@, frameDelay[a])]
    /\ i' = [b \in DOMAIN i |-> i[b] + 1]
    /\ pc' = [pc EXCEPT ![a] = LoopAt(a, i[a] + 1)]
    /\ UNCHANGED <<storeVars, createVars, runID, speedStr, speedMultiplier,
                   connOpen, exists, frameDelay, userBehavior, explanation,
                   err, writes, explainCalls, recordVars, viewerVars>>

\* (a loop that removes the frame it has sent from the run)
SleepConsuming(a) ==
    /\ ~crashed
    /\ pc[a] = "sleep"
    /\ waits' = [waits EXCEPT ![a] = Append(@, frameDelay[a])]
    /\ runs' = [runs EXCEPT ![runID[a]].trace = Tail(@)]
    /\ pc' = [pc EXCEPT ![a] = LoopAt(a, i[a] + 1)]
    /\ UNCHANGED <<env, runsMu, issued, generatorCalls, crashed, createVars,
                   runID, speedStr, speedMultiplier, connOpen, exists,
                   frameDelay, i, userBehavior, explanation, err, writes,
                   explainCalls, recordVars, viewerVars>>

\* streamRun: time.Sleep(frameDelay) returns; the loop goes on
Sleep(a) ==
    /\ ~crashed
    /\ pc[a] = "sleep"
    /\ waits' = [waits EXCEPT ![a] = Append(@, frameDelay[a])]
    /\ i' = [i EXCEPT ![a] = @ + 1]
    /\ pc' = [pc EXCEPT ![a] = LoopAt(a, i[a] + 1)]
    /\ UNCHANGED <<storeVars, createVars, runID, speedStr, speedMultiplier,
                   connOpen, exists, frameDelay, userBehavior, explanation,
                   err, writes, explainCalls, recordVars, viewerVars>>

\* streamRun: return conn.WriteJSON(endMsg)
SendEnd(a) ==
    /\ ~crashed
    /\ pc[a] = "sendEnd"
    /\ writes' = [writes EXCEPT ![a] =
                     WriteJSON(a, "END", "Visualization complete")]
    /\ pc' = [pc EXCEPT ![a] = AfterWrite(connOpen[a], "close")]
    /\ err' = [err EXCEPT ![a] =
                  ErrAfterWrite(connOpen[a], @, "failed to send end")]
    /\ UNCHANGED <<storeVars, createVars, runID, speedStr, speedMultiplier,
                   connOpen, exists, frameDelay, i, userBehavior,
                   explanation, explainCalls, waits, recordVars, viewerVars>>

\* (a handler that closes without the ERROR message)
SendErrorSkipped(a) ==
    /\ ~crashed
    /\ pc[a] = "sendError"
    /\ pc' = [pc EXCEPT ![a] = "close"]
    /\ UNCHANGED <<storeVars, createVars, runID, speedStr, speedMultiplier,
                   connOpen, exists, frameDelay, i, userBehavior,
                   explanation, err, writes, explainCalls, waits,
                   recordVars, viewerVars>>

\* handleWebSocket: streamRun returned an error; the best-effort ERROR
SendError(a) ==
    /\ ~crashed
    /\ pc[a] = "sendError"
    /\ writes' = [writes EXCEPT ![a] = WriteJSON(a, "ERROR", err[a])]
    /\ pc' = [pc EXCEPT ![a] = "close"]
    /\ UNCHANGED <<storeVars, createVars, runID, speedStr, speedMultiplier,
                   connOpen, exists, frameDelay, i, userBehavior,
                   explanation, err, explainCalls, waits, recordVars,
                   viewerVars>>

\* (a handler that drops the run when its connection closes)
CloseDeletingRun(a) ==
    /\ ~crashed
    /\ pc[a] = "close"
    /\ connOpen' = [connOpen EXCEPT ![a] = FALSE]
    /\ runs' = [id \in DOMAIN runs \ {runID[a]} |-> runs[id]]
    /\ pc' = [pc EXCEPT ![a] = "closed"]
    /\ UNCHANGED <<env, runsMu, issued, generatorCalls, crashed, createVars,
                   runID, speedStr, speedMultiplier, exists, frameDelay, i,
                   userBehavior, explanation, err, writes, explainCalls,
                   waits, recordVars, viewerVars>>

\* handleWebSocket: the deferred conn.Close()
Close(a) ==
    /\ ~crashed
    /\ pc[a] = "close"
    /\ connOpen' = [connOpen EXCEPT ![a] = FALSE]
    /\ pc' = [pc EXCEPT ![a] = "closed"]
    /\ UNCHANGED <<storeVars, createVars, runID, speedStr, speedMultiplier,
                   exists, frameDelay, i, userBehavior, explanation, err,
                   writes, explainCalls, waits, recordVars, viewerVars>>

\* the viewer closes its end of the connection (or the network drops it)
ViewerCloses(a) ==
    /\ ~crashed
    /\ pc[a] \notin {"idle", "rejected", "upgradeFailed", "closed"}
    /\ connOpen[a]
    /\ connOpen' = [connOpen EXCEPT ![a] = FALSE]
    /\ UNCHANGED <<storeVars, createVars, pc, runID, speedStr,
                   speedMultiplier, exists, frameDelay, i, userBehavior,
                   explanation, err, writes, explainCalls, waits,
                   recordVars, viewerVars>>

\* ------------------------------------------------------------------------
\* Record signal: the run store's upsert of a behavior signal
\* ------------------------------------------------------------------------
Recorder(r) == "record-" \o ToString(r)

\* the arguments of a recording call
RecordArgs ==
    [runID : UUIDs, stepIndex : 0..(MaxFrames - 1), signal : Signals]

\* recordSignal: the call takes the write lock; an unknown run is a no-op
RecordSignalLock(r) ==
    /\ ~crashed
    /\ rpc[r] = "idle"
    /\ CanLock
    /\ runsMu' = Lock(Recorder(r))
    /\ \E arg \in RecordArgs :
        /\ rarg' = [rarg EXCEPT ![r] = arg]
        /\ rpc' = [rpc EXCEPT ![r] =
               IF arg.runID \in DOMAIN runs THEN "writing" ELSE "unlock"]
    /\ UNCHANGED <<env, runs, issued, generatorCalls, crashed, createVars,
                   relayVars, viewerVars>>

\* recordSignal: the map write completes
RecordSignalWrite(r) ==
    /\ ~crashed
    /\ rpc[r] = "writing"
    /\ runs' = [runs EXCEPT ![rarg[r].runID].behaviorSignals =
                   Put(@, rarg[r].stepIndex, rarg[r].signal)]
    /\ rpc' = [rpc EXCEPT ![r] = "unlock"]
    /\ UNCHANGED <<env, runsMu, issued, generatorCalls, crashed, createVars,
                   relayVars, rarg, viewerVars>>

\* recordSignal: the lock is released
RecordSignalUnlock(r) ==
    /\ ~crashed
    /\ rpc[r] = "unlock"
    /\ runsMu' = Unlock
    /\ rpc' = [rpc EXCEPT ![r] = "done"]
    /\ UNCHANGED <<env, runs, issued, generatorCalls, crashed, createVars,
                   relayVars, rarg, viewerVars>>

\* ------------------------------------------------------------------------
\* The viewer client: App.jsx
\* ------------------------------------------------------------------------
\* what the relay sends on a connection for a run with these frames
StreamOf(frames) ==
    [k \in 1..(2 * Len(frames) + 1) |->
        IF k = 2 * Len(frames) + 1 THEN [type |-> "END", data |-> None]
        ELSE IF k % 2 = 1
             THEN [type |-> "TRACE", data |-> frames[(k + 1) \div 2]]
             ELSE [type |-> "EXPLANATION", data |-> "explanation"]]

\* the streams a connection can carry: a run's messages, or the ERROR of
\* a run the relay does not find
ServerStreams ==
    {StreamOf(frames) : frames \in Traces}
        \cup {<<[type |-> "ERROR", data |-> "run not found"]>>}

\* ws.close()
CloseSocket(sock) ==
    IF sock.readyState \in {"connecting", "open"}
    THEN [sock EXCEPT !.readyState = "closing"]
    ELSE sock

\* connectWebSocket: new WebSocket(...); wsRef.current = ws
ConnectWebSocket(k, stream) ==
    /\ ws' = [ws EXCEPT ![k] =
                 [readyState |-> "connecting", stream |-> stream, next |-> 1]]
    /\ wsRef' = k

\* handleRun up to the await: setRunStatus('running'), the POST is sent
HandleRun(k) ==
    /\ vpc[k] = "idle"
    /\ \A j \in ViewerRuns : j < k => vpc[j] # "idle"
    /\ runStatus' = "running"
    /\ vpc' = [vpc EXCEPT ![k] = "fetching"]
    /\ UNCHANGED <<storeVars, createVars, relayVars, recordVars, runId, ws,
                   wsRef, pauseStartRef, traceFrames, received>>

\* handleRun after the await: the answer of POST /api/run; on success
\* setRunId and connectWebSocket, otherwise the catch block
HandleRunResponse(k) ==
    /\ vpc[k] = "fetching"
    /\ vpc' = [vpc EXCEPT ![k] = "done"]
    /\ \E ok \in BOOLEAN, stream \in ServerStreams :
        IF ok
        THEN /\ runId' = "run-" \o ToString(k)
             /\ ConnectWebSocket(k, stream)
             /\ UNCHANGED runStatus
        ELSE /\ runStatus' = "error"
             /\ UNCHANGED <<runId, ws, wsRef>>
    /\ UNCHANGED <<storeVars, createVars, relayVars, recordVars,
                   pauseStartRef, traceFrames, received>>

\* handlePause: pause while running, resume while paused
HandlePause ==
    /\ runStatus \in {"running", "paused"}
    /\ IF runStatus = "running"
       THEN /\ pauseStartRef' = TRUE
            /\ runStatus' = "paused"
            /\ ws' = IF wsRef # 0
                     THEN [ws EXCEPT ![wsRef] = CloseSocket(@)]
                     ELSE ws
       ELSE /\ runStatus' = "running"
            /\ UNCHANGED <<pauseStartRef, ws>>
    /\ UNCHANGED <<storeVars, createVars, relayVars, recordVars, runId, vpc,
                   wsRef, traceFrames, received>>

\* ws.onopen: the connection is established
OnOpen(k) ==
    /\ ws[k].readyState = "connecting"
    /\ ws' = [ws EXCEPT ![k].readyState = "open"]
    /\ UNCHANGED <<storeVars, createVars, relayVars, recordVars, runStatus,
                   runId, vpc, wsRef, pauseStartRef, traceFrames, received>>

\* the message a connection delivers next
NextMessage(k) == ws[k].stream[ws[k].next]

\* ws.onmessage: an open connection delivers its next message
OnMessage(k) ==
    /\ ws[k].readyState = "open"
    /\ ws[k].next <= Len(ws[k].stream)
    /\ ws' = [ws EXCEPT ![k].next = @ + 1]
    /\ received' = Append(received, NextMessage(k).type)
    /\ traceFrames' = IF NextMessage(k).type = "TRACE"
                      THEN Append(traceFrames, NextMessage(k).data)
                      ELSE traceFrames
    /\ runStatus' = IF NextMessage(k).type = "END" THEN "completed"
                    ELSE IF NextMessage(k).type = "ERROR" THEN "error"
                    ELSE runStatus
    /\ UNCHANGED <<storeVars, createVars, relayVars, recordVars, runId, vpc,
                   wsRef, pauseStartRef>>

\* ws.onerror: the connection fails; setRunStatus('error')
OnError(k) ==
    /\ ws[k].readyState \in {"connecting", "open", "closing"}
    /\ ws' = [ws EXCEPT ![k].readyState = "closed"]
    /\ runStatus' = "error"
    /\ UNCHANGED <<storeVars, createVars, relayVars, recordVars, runId, vpc,
                   wsRef, pauseStartRef, traceFrames, received>>

\* ws.onclose: the closing handshake ends, or the relay has closed
OnClose(k) ==
    /\ ws[k].readyState \in {"open", "closing"}
    /\ ws' = [ws EXCEPT ![k].readyState = "closed"]
    /\ UNCHANGED <<storeVars, createVars, relayVars, recordVars, runStatus,
                   runId, vpc, wsRef, pauseStartRef, traceFrames, received>>

\* ------------------------------------------------------------------------
\* The program
\* ------------------------------------------------------------------------
NextCreate ==
    \/ \E c \in DOMAIN cpc : HandleRunCreate(c)
    \/ \E c \in DOMAIN cpc : CallPythonExecuteFails(c)
    \/ \E c \in DOMAIN cpc : CallPythonExecute(c)
    \/ \E c \in DOMAIN cpc : CreateRunNew(c)
    \/ \E c \in DOMAIN cpc : CreateRunStore(c)
    \/ \E c \in DOMAIN cpc : CreateRunUnlock(c)

NextRelay ==
    \/ \E a \in DOMAIN pc : HandleWebSocket(a)
    \/ \E a \in DOMAIN pc : StreamRunRLock(a)
    \/ \E a \in DOMAIN pc : StreamRunRUnlock(a)
    \/ \E a \in DOMAIN pc : SendTrace(a)
    \/ \E a \in DOMAIN pc : GetBehaviorSignalRLock(a)
    \/ \E a \in DOMAIN pc : GetBehaviorSignalRUnlock(a)
    \/ \E a \in DOMAIN pc : GetBehaviorSignalRead(a)
    \/ \E a \in DOMAIN pc : CallPythonExplain(a)
    \/ \E a \in DOMAIN pc : ExplainReturns(a)
    \/ \E a \in DOMAIN pc : SendExplanation(a)
    \/ \E a \in DOMAIN pc : Sleep(a)
    \/ \E a \in DOMAIN pc : SendEnd(a)
    \/ \E a \in DOMAIN pc : SendError(a)
    \/ \E a \in DOMAIN pc : Close(a)
    \/ \E a \in DOMAIN pc : ViewerCloses(a)

Next == NextCreate \/ NextRelay

Spec == Init /\ [][Next]_vars

\* The program with signal-recording callers, from the state in which one
\* create-run has stored a run: the attachments and the recording calls
InitSignals ==
    \E id \in UUIDs, frames \in Traces :
        InitWith({}, Attachments, Recorders,
                 Put(EmptyMap, id, NewRunState(id, frames)),
                 [runIds |-> {id}, speeds |-> {<< >>, <<"2">>}])

NextRecord ==
    \/ \E r \in DOMAIN rpc : RecordSignalLock(r)
    \/ \E r \in DOMAIN rpc : RecordSignalWrite(r)
    \/ \E r \in DOMAIN rpc : RecordSignalUnlock(r)
    \/ \E a \in DOMAIN pc : GetBehaviorSignalReadRaced(a)
    \/ \E a \in DOMAIN pc : GetBehaviorSignalReadFatal(a)

NextSignals == NextRelay \/ NextRecord

SpecSignals == InitSignals /\ [][NextSignals]_vars

\* The program with several attachments of one stored run, each with its
\* own speed parameter
InitSameRun ==
    \E frames \in Traces :
        InitWith({}, Concurrent, {},
                 Put(EmptyMap, "run-1", NewRunState("run-1", frames)),
                 [runIds |-> {"run-1"}, speeds |-> {<< >>, <<"2">>}])

SpecSameRun == InitSameRun /\ [][NextRelay]_vars

\* The program with attachments of two stored runs, and what the scheduling
\* gives each attachment: the goroutine of a connection runs whenever it can
\* (a lock it waits for is granted once free, a write returns, a sleep
\* ends); nothing says the explanation collaborator answers or the viewer
\* stays. Every step of a goroutine changes its pc.
InitTwoRuns ==
    InitWith({}, Concurrent, {},
             Put(Put(EmptyMap, "run-1", NewRunState("run-1", <<"fA", "fB">>)),
                 "run-2", NewRunState("run-2", <<"fB">>)),
             [runIds |-> {"run-1", "run-2"}, speeds |-> {<< >>, <<"2">>}])

\* the steps of an attachment's own goroutine
OwnStep(a) ==
    \/ StreamRunRLock(a)
    \/ StreamRunRUnlock(a)
    \/ SendTrace(a)
    \/ GetBehaviorSignalRLock(a)
    \/ GetBehaviorSignalRUnlock(a)
    \/ GetBehaviorSignalRead(a)
    \/ CallPythonExplain(a)
    \/ SendExplanation(a)
    \/ Sleep(a)
    \/ SendEnd(a)
    \/ SendError(a)
    \/ Close(a)

SpecTwoRuns ==
    /\ InitTwoRuns
    /\ [][NextRelay]_vars
    /\ \A a \in Concurrent : WF_pc(OwnStep(a))

\* a viewer session on its own: the handlers of App.jsx and the events of
\* its connections
InitViewer ==
    InitWith({}, {}, {}, EmptyMap, [runIds |-> {}, speeds |-> {}])

NextViewer ==
    \/ \E k \in ViewerRuns :
        \/ HandleRun(k)
        \/ HandleRunResponse(k)
        \/ OnOpen(k)
        \/ OnMessage(k)
        \/ OnError(k)
        \/ OnClose(k)
    \/ HandlePause

SpecViewer == InitViewer /\ [][NextViewer]_vars

\* ------------------------------------------------------------------------
\* Observations
\* ------------------------------------------------------------------------
Delivered(m) == m.ok
IsStreamType(m) == m.type \in {"TRACE", "EXPLANATION", "END"}
DeliveredStream(m) == m.ok /\ IsStreamType(m)
IsTrace(m) == m.type = "TRACE"
IsExplanation(m) == m.type = "EXPLANATION"
IsEnd(m) == m.type = "END"
IsError(m) == m.type = "ERROR"

\* the messages an attachment has emitted successfully
Sent(a) == SelectSeq(writes[a], Delivered)

\* its TRACE / EXPLANATION / END messages emitted successfully
StreamSent(a) == SelectSeq(writes[a], DeliveredStream)

\* the attachment's lookup found its run
Found(a) ==
    /\ pc[a] \notin {"idle", "rejected", "upgradeFailed", "lookup",
                     "lookupUnlock"}
    /\ err[a] # "run not found"

\* streamRun has returned
Returned(a) == pc[a] \in {"sendError", "close", "closed"}

\* the relay's state machine
RelayState(a) ==
    IF pc[a] \in {"idle", "rejected", "upgradeFailed"} THEN "Idle"
    ELSE IF ~Returned(a) THEN "Streaming"
    ELSE IF err[a] = None THEN "Completed"
    ELSE "Aborted"

\* msgs is a prefix of TRACE(0), EXPLANATION(0), ..., END for the frames
InOrder(msgs, frames) ==
    LET N == Len(frames)
    IN /\ Len(msgs) <= 2 * N + 1
       /\ \A k \in 1..Len(msgs) :
            IF k = 2 * N + 1 THEN IsEnd(msgs[k])
            ELSE IF k % 2 = 1
                 THEN IsTrace(msgs[k]) /\ msgs[k].data = frames[(k + 1) \div 2]
                 ELSE IsExplanation(msgs[k])

AllOk(msgs) == \A k \in 1..Len(msgs) : msgs[k].ok

\* ------------------------------------------------------------------------
\* C1: at every point of every attachment, the TRACE / EXPLANATION / END
\* messages emitted so far are a prefix of TRACE(0), EXPLANATION(0), ...,
\* TRACE(N-1), EXPLANATION(N-1), END, TRACE(i) carrying trace[i]
\* ------------------------------------------------------------------------
C1_OrderedPrefix ==
    \A a \in DOMAIN pc :
        StreamSent(a) # << >> =>
            /\ runID[a] \in DOMAIN runs
            /\ InOrder(StreamSent(a), RunOf(a).trace)

\* an attachment that aborted at END after both frames of a two-frame trace
\* with different frames
C1_Witness ==
    \E a \in DOMAIN pc :
        /\ RelayState(a) = "Aborted"
        /\ Len(StreamSent(a)) = 4
        /\ StreamSent(a)[1].data # StreamSent(a)[3].data

\* ------------------------------------------------------------------------
\* C2: with N >= 1 frames and every send succeeding, the attachment emits
\* N TRACE and N EXPLANATION messages alternating, then one END and nothing
\* more, whatever the explanation calls return
\* ------------------------------------------------------------------------
C2_FullSequence ==
    \A a \in DOMAIN pc :
        (Found(a) /\ Returned(a) /\ AllOk(writes[a])
                  /\ Len(RunOf(a).trace) >= 1) =>
            LET N == Len(RunOf(a).trace)
            IN /\ Len(writes[a]) = 2 * N + 1
               /\ InOrder(writes[a], RunOf(a).trace)
               /\ Len(SelectSeq(writes[a], IsTrace)) = N
               /\ Len(SelectSeq(writes[a], IsExplanation)) = N
               /\ Len(SelectSeq(writes[a], IsEnd)) = 1
               /\ IsEnd(writes[a][Len(writes[a])])

\* a completed two-frame attachment with one failed and one successful
\* explanation call
C2_Witness ==
    \E a \in DOMAIN pc :
        /\ pc[a] = "closed" /\ Found(a) /\ AllOk(writes[a])
        /\ Len(explainCalls[a]) = 2
        /\ explainCalls[a][1].result = "error"
        /\ explainCalls[a][2].result = "ok"

\* ------------------------------------------------------------------------
\* C3: when the explanation call for frame k fails, the relay does not
\* abort: EXPLANATION(k) carries the fallback (mode conceptual, confidence
\* medium, empty follow-up) and TRACE(k+1), or END after the last frame,
\* follows as after a successful call
\* ------------------------------------------------------------------------
C3_FallbackAndContinue ==
    \A a \in DOMAIN pc :
        /\ \A j \in 1..Len(explainCalls[a]) :
            LET k == explainCalls[a][j].step
                N == Len(RunOf(a).trace)
                w == writes[a]
            IN explainCalls[a][j].result = "error" =>
                /\ (pc[a] = "sendExplanation" /\ i[a] = k) =>
                       /\ explanation[a] = FallbackExplanation
                       /\ RelayState(a) = "Streaming"
                /\ Len(w) >= 2 * k + 2 =>
                       /\ IsExplanation(w[2 * k + 2])
                       /\ w[2 * k + 2].data.mode = "conceptual"
                       /\ w[2 * k + 2].data.confidence_estimate = "medium"
                       /\ w[2 * k + 2].data.followup_question = ""
                /\ (Len(w) >= 2 * k + 3 /\ w[2 * k + 2].ok) =>
                       IF k + 1 < N
                       THEN /\ IsTrace(w[2 * k + 3])
                            /\ w[2 * k + 3].data = RunOf(a).trace[k + 2]
                       ELSE IsEnd(w[2 * k + 3])
        /\ RelayState(a) = "Aborted" /\ Found(a) => ~AllOk(writes[a])

\* a completed two-frame attachment both of whose explanation calls failed
C3_Witness ==
    \E a \in DOMAIN pc :
        /\ RelayState(a) = "Completed"
        /\ Len(explainCalls[a]) = 2
        /\ explainCalls[a][1].result = "error"
        /\ explainCalls[a][2].result = "error"
        /\ writes[a][2].data = FallbackExplanation
        /\ IsTrace(writes[a][3])
        /\ IsEnd(writes[a][5])

\* ------------------------------------------------------------------------
\* C4: once a TRACE, EXPLANATION or END send has failed the relay is
\* Aborted: no further explanation call, no further TRACE, EXPLANATION or
\* END write, no retry
\* ------------------------------------------------------------------------
StreamWrites(a) == SelectSeq(writes[a], IsStreamType)

FailedStreamWrite(a) ==
    \E k \in 1..Len(writes[a]) :
        ~writes[a][k].ok /\ IsStreamType(writes[a][k])

C4_StopOnSendFailure ==
    [][\A a \in DOMAIN pc :
          FailedStreamWrite(a) =>
              /\ RelayState(a) = "Aborted"
              /\ explainCalls'[a] = explainCalls[a]
              /\ StreamWrites(a)' = StreamWrites(a)]_vars

\* TRACE(1) failed after frame 0 went through, and the handler has closed
C4_Witness ==
    \E a \in DOMAIN pc :
        /\ pc[a] = "closed"
        /\ Len(writes[a]) = 4
        /\ IsTrace(writes[a][3]) /\ ~writes[a][3].ok
        /\ Len(RunOf(a).trace) = 2
        /\ Len(explainCalls[a]) = 1

\* ------------------------------------------------------------------------
\* C5: an attachment whose run identifier is not in the run table emits no
\* TRACE, EXPLANATION or END, makes no explanation call, and ends with
\* "run not found": one ERROR write, then the close
\* ------------------------------------------------------------------------
C5_UnknownRun ==
    \A a \in DOMAIN pc :
        /\ (pc[a] \notin {"idle", "rejected", "upgradeFailed", "lookup"}
              /\ ~exists[a]) =>
            /\ explainCalls[a] = << >>
            /\ waits[a] = << >>
            /\ StreamWrites(a) = << >>
            /\ pc[a] # "lookupUnlock" =>
                   err[a] = "run not found" /\ RelayState(a) = "Aborted"
            /\ pc[a] \in {"lookupUnlock", "sendError"} => writes[a] = << >>
            /\ pc[a] \in {"close", "closed"} =>
                   /\ Len(writes[a]) = 1
                   /\ IsError(writes[a][1])
                   /\ writes[a][1].data = "run not found"
            /\ pc[a] = "closed" => ~connOpen[a]
        /\ err[a] = "run not found" => ~exists[a]

\* an attachment with the identifier no create-run returns has ended: the
\* one ERROR was delivered and the connection is closed
C5_Witness ==
    \E a \in DOMAIN pc :
        /\ pc[a] = "closed"
        /\ runID[a] = "ghost"
        /\ writes[a] = <<Message("ERROR", "run not found", TRUE)>>

\* ------------------------------------------------------------------------
\* C6: the multiplier the relay runs with is strictly positive; an absent,
\* unparseable, zero or negative speed parameter gives 1.0, and the delay
\* is never negative
\* ------------------------------------------------------------------------
C6_SpeedAlwaysPositive ==
    \A a \in DOMAIN pc :
        pc[a] \notin {"idle", "rejected", "upgradeFailed"} =>
            /\ speedMultiplier[a] > 0
            /\ (\/ speedStr[a] = << >>
                \/ ~ScanFloat(speedStr[a]).ok
                \/ ScanFloat(speedStr[a]).value <= 0) =>
                   speedMultiplier[a] = 1000
            /\ frameDelay[a] >= 0

\* ------------------------------------------------------------------------
\* C7: a create-run that succeeds has stored, under the runId it returns,
\* a run with exactly the generator's frames, an empty signal map and
\* currentStep 0
\* ------------------------------------------------------------------------
C7_CreateThenGet ==
    \A c \in DOMAIN cpc :
        (cpc[c] = "done" /\ response[c].runId # None) =>
            /\ response[c].status = 200
            /\ Len(request[c].array) > 0
            /\ response[c].runId \in DOMAIN runs
            /\ runs[response[c].runId].runID = response[c].runId
            /\ runs[response[c].runId].trace = trace[c]
            /\ runs[response[c].runId].behaviorSignals = EmptyMap
            /\ runs[response[c].runId].currentStep = 0

\* a create-run answered with the runId of a stored two-frame run
C7_Witness ==
    \E c \in DOMAIN cpc :
        /\ cpc[c] = "done" /\ response[c].status = 200
        /\ response[c].runId \in DOMAIN runs
        /\ trace[c] = <<"fA", "fB">>

\* ------------------------------------------------------------------------
\* C8: a create-run request with an empty or missing array is answered 400
\* before the trace generator is called, and the run table is unchanged
\* ------------------------------------------------------------------------
EmptyArrayRequest(rq) ==
    rq.method = "POST" /\ rq.decodes /\ Len(rq.array) = 0

C8_EmptyArrayRejected ==
    [][\A c \in DOMAIN cpc :
          EmptyArrayRequest(request'[c]) =>
              /\ cpc'[c] = "done"
              /\ response'[c] = Reply(400, None)
              /\ generatorCalls'[c] = 0
              /\ run'[c] = None
              /\ request[c] = NoRequest =>
                     (runs' = runs /\ issued' = issued)]_vars

\* an empty array was rejected while the table held a run
C8_Witness ==
    \E c \in DOMAIN cpc :
        /\ EmptyArrayRequest(request[c])
        /\ response[c].status = 400
        /\ DOMAIN runs # {}

\* ------------------------------------------------------------------------
\* C9: when the trace generator fails, create-run answers 500 and the run
\* table is as before: no identifier allocated, no partial run visible
\* ------------------------------------------------------------------------
C9_GeneratorFailureLeavesStore ==
    [][\A c \in DOMAIN cpc :
          createErr'[c] # None =>
              /\ cpc'[c] = "done"
              /\ response'[c] = Reply(500, None)
              /\ run'[c] = None
              /\ createErr[c] = None => (runs' = runs /\ issued' = issued)]_vars

\* each kind of generator failure
C9_Witness ==
    \E c \in DOMAIN cpc :
        /\ createErr[c] = "decode"
        /\ response[c].status = 500
        /\ DOMAIN runs # {}

\* ------------------------------------------------------------------------
\* C10: a signal recorded for (runId, step) before the relay reads that
\* step shows in the summary of the step's explanation call with its
\* pauseDuration and replayCount, and the summary's speedMultiplier is
\* always the attachment's live multiplier
\* ------------------------------------------------------------------------
\* the relay reads the signal of its current step
ReadsSignal(a) == pc[a] = "signalRead" /\ pc'[a] = "explain"

\* the signals recorded for the relay's current step: the one in the map
\* and those a recording call is writing at this moment
RecordedForStep(a) ==
    {RunOf(a).behaviorSignals[k] :
        k \in {i[a]} \cap DOMAIN RunOf(a).behaviorSignals} \cup
    {rarg[r].signal :
        r \in {q \in DOMAIN rpc : /\ rpc[q] = "writing"
                                  /\ rarg[q].runID = runID[a]
                                  /\ rarg[q].stepIndex = i[a]}}

C10_SummaryReflectsSignal ==
    [][\A a \in DOMAIN pc :
          /\ ReadsSignal(a) =>
              /\ userBehavior'[a].speedMultiplier = speedMultiplier[a]
              /\ i[a] \in DOMAIN RunOf(a).behaviorSignals =>
                    \E sig \in RecordedForStep(a) :
                        /\ userBehavior'[a].pauseDuration = sig.pauseDuration
                        /\ userBehavior'[a].replayCount = sig.replayCount
          /\ (pc[a] = "explain" /\ pc'[a] = "explaining") =>
              explainCalls'[a][Len(explainCalls'[a])].userBehavior
                  = userBehavior[a]]_vars

\* ------------------------------------------------------------------------
\* C11: the summary the relay builds for a step with no recorded signal is
\* the same, field for field, as the one it builds when the all-defaults
\* signal (0, 0, 1.0, no hoverIndex, no scrollDepth) is recorded for it
\* (reads that no recording call overlaps)
\* ------------------------------------------------------------------------
C11_AbsentEqualsDefaults ==
    [][\A a \in DOMAIN pc :
          (/\ ReadsSignal(a)
           /\ ~MapWriteInProgress(runID[a])
           /\ RecordedForStep(a) \subseteq {AllDefaultsSignal})
              => userBehavior'[a]
                     = WithSpeed(DefaultSummary, speedMultiplier[a])]_vars

\* ------------------------------------------------------------------------
\* C12: with several attachments streaming one run at any speeds, each
\* attachment's messages are its own TRACE(0), EXPLANATION(0), ..., END in
\* order, complete when all its sends succeeded, under every interleaving;
\* a step changes the position and messages of one attachment at most and
\* never the run's frames
\* ------------------------------------------------------------------------
\* what an attachment's goroutine holds: its position, its messages
RelayLocals(a) ==
    <<pc[a], runID[a], speedMultiplier[a], connOpen[a], exists[a],
      frameDelay[a], i[a], userBehavior[a], explanation[a], err[a],
      writes[a], explainCalls[a], waits[a]>>

C12_IndependentAttachments ==
    [][/\ runs' = runs
       /\ \A a \in DOMAIN pc :
            /\ Found(a)' =>
                 /\ InOrder(StreamSent(a)', runs'[runID'[a]].trace)
                 /\ i'[a] \in {i[a], i[a] + 1}
            /\ (Found(a)' /\ Returned(a)' /\ AllOk(writes'[a])) =>
                 /\ Len(writes'[a]) = 2 * Len(runs'[runID'[a]].trace) + 1
                 /\ InOrder(writes'[a], runs'[runID'[a]].trace)
            /\ \A b \in DOMAIN pc \ {a} :
                 RelayLocals(a)' # RelayLocals(a) =>
                     RelayLocals(b)' = RelayLocals(b)]_vars

\* two attachments of the same two-frame run are streaming at once, at
\* different speeds and different positions: one is about to send END, the
\* other is still waiting for the explanation of frame 0
C12_Witness ==
    \E a \in DOMAIN pc, b \in DOMAIN pc :
        /\ a # b /\ runID[a] = runID[b]
        /\ speedMultiplier[a] # speedMultiplier[b]
        /\ Len(RunOf(a).trace) = 2
        /\ pc[a] = "sendEnd" /\ AllOk(writes[a]) /\ Len(writes[a]) = 4
        /\ pc[b] = "explaining" /\ i[b] = 0 /\ Len(writes[b]) = 1

\* ------------------------------------------------------------------------
\* C13: an attachment in its pacing wait or in an explanation call never
\* disables another attachment's next step; with attachments of different
\* runs at different speeds, every attachment whose explanation calls
\* return and whose sends succeed eventually emits END, whatever the others
\* do
\* ------------------------------------------------------------------------
\* the attachment's next step, the collaborator's answer included
RelayStep(a) == OwnStep(a) \/ ExplainReturns(a)

Waiting(a) == pc[a] \in {"sleep", "explaining"}

Started(a) == pc[a] \notin {"idle", "rejected", "upgradeFailed", "closed"}

EmittedEnd(a) ==
    /\ writes[a] # << >>
    /\ IsEnd(writes[a][Len(writes[a])])
    /\ writes[a][Len(writes[a])].ok

C13_IndependentProgress ==
    /\ [](\A a \in Concurrent, b \in Concurrent :
            (a # b /\ Waiting(a) /\ Started(b)) => ENABLED RelayStep(b))
    /\ \A a \in Concurrent :
          []<>(pc[a] # "explaining") =>
              ((pc[a] = "lookup") ~> (EmittedEnd(a) \/ ~AllOk(writes[a])))

\* an attachment has emitted END and closed while an attachment of another
\* run, at another speed, is still in the explanation call of its frame 0
C13_Witness ==
    \E a \in DOMAIN pc, b \in DOMAIN pc :
        /\ runID[a] # runID[b]
        /\ speedMultiplier[a] # speedMultiplier[b]
        /\ pc[a] = "closed" /\ EmittedEnd(a) /\ Len(writes[a]) = 5
        /\ pc[b] = "explaining" /\ i[b] = 0

\* ------------------------------------------------------------------------
\* C14: no relay holds runsMu, as reader or writer, while its explanation
\* call, a viewer send or its pacing wait is in progress; so a create-run
\* that waits for the write lock never waits for such a relay
\* ------------------------------------------------------------------------
\* the relay is in an explanation call, a viewer send or a pacing wait
Busy(a) ==
    pc[a] \in {"sendTrace", "explain", "explaining", "sendExplanation",
               "sleep", "sendEnd", "sendError"}

HoldsLock(p) == p \in runsMu.readers \/ runsMu.writer = p

C14_NoLockWhileBusy ==
    /\ \A a \in DOMAIN pc : Busy(a) => ~HoldsLock(Relay(a))
    /\ \A c \in DOMAIN cpc :
          (cpc[c] = "store" /\ ~CanLock) =>
              \A a \in DOMAIN pc : HoldsLock(Relay(a)) => ~Busy(a)

\* a create-run has taken the write lock and stored its run while the
\* relay is in an explanation call
C14_Witness ==
    \E a \in DOMAIN pc, c \in DOMAIN cpc :
        /\ pc[a] = "explaining"
        /\ cpc[c] = "unlock"
        /\ runsMu.writer # None
        /\ run[c].runID # runID[a]

\* ------------------------------------------------------------------------
\* C15: under any interleaving of create-run and lookups, an identifier in
\* the run table maps to a run with its complete trace and its empty,
\* initialized signal map: a lookup finds nothing or such a run, and it is
\* made while no create-run holds the write lock
\* ------------------------------------------------------------------------
\* createRun has reached the store of its run
Published(c) ==
    \/ cpc[c] = "unlock"
    \/ cpc[c] = "done" /\ response[c].status = 200 /\ response[c].runId # None

C15_AtomicPublish ==
    /\ \A id \in DOMAIN runs :
          \E c \in DOMAIN cpc :
              /\ Published(c)
              /\ run[c].runID = id
              /\ runs[id] = NewRunState(id, trace[c])
    /\ \A a \in DOMAIN pc :
          /\ pc[a] \in {"lookupUnlock", "signalUnlock"} =>
                /\ runsMu.writer = None
                /\ exists[a] = (runID[a] \in DOMAIN runs)
          /\ (pc[a] \notin {"idle", "rejected", "upgradeFailed", "lookup"}
                /\ exists[a]) => runID[a] \in DOMAIN runs

\* a lookup has found a stored two-frame run while another create-run has
\* built its run and waits for the lock to store it
C15_Witness ==
    \E a \in DOMAIN pc, c \in DOMAIN cpc :
        /\ pc[a] = "lookupUnlock" /\ exists[a]
        /\ Len(RunOf(a).trace) = 2
        /\ cpc[c] = "store"
        /\ run[c].runID \notin DOMAIN runs

\* ------------------------------------------------------------------------
\* C16: a relay's read of the signal for (runId, step) never overlaps a
\* signal-recording write to the same run's signal map
\* ------------------------------------------------------------------------
C16_SignalReadExclusive ==
    [][\A a \in DOMAIN pc :
          (ReadsSignal(a) /\ exists[a]) =>
              ~MapWriteInProgress(runID[a])]_vars

\* ------------------------------------------------------------------------
\* C17: run identifiers are unique and never reused: two successful
\* create-runs return different identifiers, a create-run stores under an
\* identifier the table does not hold, and an entry once stored stays
\* ------------------------------------------------------------------------
\* the create-run has answered with a run identifier
Succeeded(c) ==
    cpc[c] = "done" /\ response[c].status = 200 /\ response[c].runId # None

C17_UniqueRunIds ==
    [][/\ \A c \in DOMAIN cpc, d \in DOMAIN cpc :
            (c # d /\ Succeeded(c)' /\ Succeeded(d)') =>
                response'[c].runId # response'[d].runId
       /\ \A c \in DOMAIN cpc :
            (cpc[c] = "store" /\ cpc'[c] = "unlock") =>
                /\ run[c].runID \notin DOMAIN runs
                /\ DOMAIN runs' = DOMAIN runs \cup {run[c].runID}
       /\ \A id \in DOMAIN runs :
            id \in DOMAIN runs' /\ runs'[id] = runs[id]]_vars

\* two create-runs have succeeded; the table holds both runs
C17_Witness ==
    \E c \in DOMAIN cpc, d \in DOMAIN cpc :
        /\ c # d /\ Succeeded(c) /\ Succeeded(d)
        /\ {response[c].runId, response[d].runId} \subseteq DOMAIN runs
        /\ Cardinality(DOMAIN runs) = 2

\* ------------------------------------------------------------------------
\* C18: the trace stored for a run identifier is, frame for frame, the
\* sequence the trace generator returned to the create-run that stored it,
\* and no step changes it
\* ------------------------------------------------------------------------
C18_TraceImmutable ==
    [][/\ \A id \in DOMAIN runs :
            id \in DOMAIN runs' /\ runs'[id].trace = runs[id].trace
       /\ \A c \in DOMAIN cpc :
            Published(c)' =>
                /\ run'[c].runID \in DOMAIN runs'
                /\ runs'[run'[c].runID].trace = trace'[c]
                /\ trace'[c] \in Traces]_vars

\* an attachment has streamed a stored two-frame run to its END, and the
\* stored trace is still what the generator returned
C18_Witness ==
    \E a \in DOMAIN pc, c \in DOMAIN cpc :
        /\ Succeeded(c) /\ runID[a] = response[c].runId
        /\ pc[a] = "closed" /\ EmittedEnd(a)
        /\ Len(explainCalls[a]) = 2
        /\ RunOf(a).trace = trace[c]
        /\ trace[c] = <<"fB", "fA">>

\* ------------------------------------------------------------------------
\* C19: an attachment's pacing wait is 1000 ms divided by its speed
\* multiplier, truncated to whole milliseconds, the same after every frame
\* (speed 2.0 gives 500 ms, speed 1.0 gives 1000 ms); it changes neither
\* the order nor the number of the messages
\* ------------------------------------------------------------------------
C19_PacingWait ==
    \A a \in DOMAIN pc :
        Found(a) =>
            /\ speedMultiplier[a] # 0
            /\ frameDelay[a] = TruncDiv(baseDelay * 1000, speedMultiplier[a])
            /\ \A k \in 1..Len(waits[a]) : waits[a][k] = frameDelay[a]
            /\ speedMultiplier[a] = 2000 => frameDelay[a] = 500
            /\ speedMultiplier[a] = 1000 => frameDelay[a] = 1000
            /\ Len(waits[a]) = i[a]
            /\ InOrder(StreamSent(a), RunOf(a).trace)

\* ------------------------------------------------------------------------
\* C20: an attachment goes Idle -> Streaming -> Completed or Aborted;
\* Completed and Aborted are terminal; Completed is entered only after END
\* was sent successfully following every frame's TRACE and EXPLANATION;
\* Aborted is entered only on a failed viewer send or an unknown run, never
\* on a failed explanation call
\* ------------------------------------------------------------------------
StateSuccessors(state) ==
    IF state = "Idle" THEN {"Idle", "Streaming"}
    ELSE IF state = "Streaming" THEN {"Streaming", "Completed", "Aborted"}
    ELSE {state}

C20_RelayStateMachine ==
    [][\A a \in DOMAIN pc :
          /\ RelayState(a)' \in StateSuccessors(RelayState(a))
          /\ RelayState(a)' = "Completed" =>
                /\ AllOk(writes'[a])
                /\ Len(writes'[a]) = 2 * Len(runs'[runID'[a]].trace) + 1
                /\ InOrder(writes'[a], runs'[runID'[a]].trace)
                /\ EmittedEnd(a)'
          /\ RelayState(a)' = "Aborted" =>
                \/ ~exists'[a] /\ err'[a] = "run not found"
                \/ FailedStreamWrite(a)'
          /\ (RelayState(a) = "Streaming" /\ RelayState(a)' = "Aborted") =>
                /\ explainCalls'[a] = explainCalls[a]
                /\ pc[a] \in {"lookupUnlock", "sendTrace",
                              "sendExplanation", "sendEnd"}]_vars

\* an attachment whose explanation call for frame 0 failed went on, and
\* was aborted only by the failed send of EXPLANATION(1)
C20_Witness ==
    \E a \in DOMAIN pc :
        /\ RelayState(a) = "Aborted" /\ pc[a] = "closed"
        /\ Len(explainCalls[a]) = 2
        /\ explainCalls[a][1].result = "error"
        /\ explainCalls[a][2].result = "ok"
        /\ Len(writes[a]) = 5
        /\ IsExplanation(writes[a][4]) /\ ~writes[a][4].ok

\* ------------------------------------------------------------------------
\* C21: once the viewer connection has closed during streaming, the relay
\* stops at its current or next send: it starts at most one more
\* explanation call, the one for the frame whose TRACE it has sent, and at
\* most one more pacing wait
\* ------------------------------------------------------------------------
\* the viewer is gone and streamRun has not returned yet
ClosedWhileStreaming(a) == RelayState(a) = "Streaming" /\ ~connOpen[a]

\* explanation calls the relay can still start once the viewer is gone
CallsLeft(a) ==
    IF pc[a] \in {"signalLookup", "signalUnlock", "signalRead", "explain"}
    THEN 1 ELSE 0

\* pacing waits it can still finish
WaitsLeft(a) == IF pc[a] = "sleep" THEN 1 ELSE 0

C21_StopsAfterViewerCloses ==
    [][\A a \in DOMAIN pc :
          ClosedWhileStreaming(a) =>
              /\ Len(explainCalls'[a]) - Len(explainCalls[a])
                     <= CallsLeft(a) - CallsLeft(a)'
              /\ Len(waits'[a]) - Len(waits[a])
                     <= WaitsLeft(a) - WaitsLeft(a)'
              /\ CallsLeft(a) + WaitsLeft(a) <= 1
              /\ Len(explainCalls'[a]) > Len(explainCalls[a]) =>
                    LET last == writes[a][Len(writes[a])]
                        call == explainCalls'[a][Len(explainCalls'[a])]
                    IN /\ IsTrace(last) /\ last.ok
                       /\ call.step = i[a]
                       /\ call.frame = last.data
              /\ pc[a] \in {"sendTrace", "sendExplanation", "sendEnd"} =>
                    pc'[a] \in {pc[a], "sendError"}
              /\ ~connOpen'[a]]_vars

\* the viewer closed after TRACE(0) of a two-frame run was delivered: the
\* relay made the call for frame 0, failed to send EXPLANATION(0) and ended
\* without a call for frame 1 and without a wait
C21_Witness ==
    \E a \in DOMAIN pc :
        /\ pc[a] = "closed" /\ Found(a)
        /\ Len(RunOf(a).trace) = 2
        /\ Len(writes[a]) = 3
        /\ writes[a][1].ok /\ ~writes[a][2].ok /\ IsError(writes[a][3])
        /\ Len(explainCalls[a]) = 1
        /\ waits[a] = << >>

\* ------------------------------------------------------------------------
\* C22: an ERROR write is attempted iff streamRun returned an error (the
\* run is unknown, or a TRACE, EXPLANATION or END write failed); it is
\* attempted once, as the last write before the close, never after a
\* delivered END and never for a failed explanation call
\* ------------------------------------------------------------------------
ErrorWrites(a) == SelectSeq(writes[a], IsError)

\* the error streamRun returned, if any
ReturnedError(a) == Returned(a) /\ err[a] # None

DeliveredEnd(a) ==
    \E k \in 1..Len(writes[a]) : IsEnd(writes[a][k]) /\ writes[a][k].ok

C22_ErrorOnlyOnRelayError ==
    \A a \in DOMAIN pc :
        /\ Len(ErrorWrites(a)) <= 1
        /\ pc[a] \notin {"close", "closed"} => ErrorWrites(a) = << >>
        /\ pc[a] \in {"close", "closed"} =>
              /\ (ErrorWrites(a) # << >>) = ReturnedError(a)
              /\ ErrorWrites(a) # << >> =>
                    /\ IsError(writes[a][Len(writes[a])])
                    /\ writes[a][Len(writes[a])].data = err[a]
        /\ ReturnedError(a) =>
              \/ err[a] = "run not found" /\ ~exists[a]
              \/ /\ err[a] \in {"failed to send trace",
                                "failed to send explanation",
                                "failed to send end"}
                 /\ FailedStreamWrite(a)
        /\ DeliveredEnd(a) => ErrorWrites(a) = << >>
        /\ (Found(a) /\ ~FailedStreamWrite(a)) => ErrorWrites(a) = << >>

\* the explanation call of the only frame failed and no ERROR followed:
\* the fallback was delivered; then the END write failed, and the one
\* ERROR write was attempted last
C22_Witness ==
    \E a \in DOMAIN pc :
        /\ pc[a] = "closed" /\ err[a] = "failed to send end"
        /\ Len(explainCalls[a]) = 1
        /\ explainCalls[a][1].result = "error"
        /\ Len(writes[a]) = 4
        /\ writes[a][2].ok /\ writes[a][2].data = FallbackExplanation
        /\ IsEnd(writes[a][3]) /\ ~writes[a][3].ok
        /\ IsError(writes[a][4])

\* ------------------------------------------------------------------------
\* C23: for every frame index an attachment reaches, the data of TRACE(i)
\* and the frame of the explanation request for step i are trace[i] of the
\* run, unmodified
\* ------------------------------------------------------------------------
TraceWrites(a) == SelectSeq(writes[a], IsTrace)

C23_FramesVerbatim ==
    \A a \in DOMAIN pc :
        Found(a) =>
            /\ \A k \in 1..Len(TraceWrites(a)) :
                  /\ k <= Len(RunOf(a).trace)
                  /\ TraceWrites(a)[k].data = RunOf(a).trace[k]
            /\ \A k \in 1..Len(explainCalls[a]) :
                  /\ explainCalls[a][k].step = k - 1
                  /\ k <= Len(RunOf(a).trace)
                  /\ explainCalls[a][k].frame = RunOf(a).trace[k]
                  /\ explainCalls[a][k].frame = TraceWrites(a)[k].data

\* both frames of the run fA, fB were written and posted, each under its
\* own index
C23_Witness ==
    \E a \in DOMAIN pc :
        /\ Found(a) /\ RunOf(a).trace = <<"fA", "fB">>
        /\ Len(TraceWrites(a)) = 2 /\ TraceWrites(a)[2].data = "fB"
        /\ Len(explainCalls[a]) = 2 /\ explainCalls[a][2].frame = "fB"
        /\ explainCalls[a][1].frame = "fA"

\* ------------------------------------------------------------------------
\* C24: per attachment the explanation collaborator is called once for
\* each frame whose TRACE was sent successfully, never for a frame whose
\* TRACE was not sent, and a failed call is not repeated: the calls never
\* outnumber the TRACE messages sent
\* ------------------------------------------------------------------------
OkTraces(a) == Len(SelectSeq(TraceWrites(a), Delivered))

\* the relay is between a delivered TRACE and the call for its frame
CallDue(a) ==
    pc[a] \in {"signalLookup", "signalUnlock", "signalRead", "explain"}

C24_OneCallPerSentTrace ==
    \A a \in DOMAIN pc :
        /\ Len(explainCalls[a]) <= OkTraces(a)
        /\ \A k \in 1..Len(explainCalls[a]) :
              /\ explainCalls[a][k].step = k - 1
              /\ TraceWrites(a)[k].ok
        /\ Len(explainCalls[a]) =
              IF CallDue(a) THEN OkTraces(a) - 1 ELSE OkTraces(a)

\* the call for frame 0 failed and was not repeated; TRACE(1) was not
\* delivered and no call was made for frame 1
C24_Witness ==
    \E a \in DOMAIN pc :
        /\ pc[a] = "closed"
        /\ Len(TraceWrites(a)) = 2
        /\ TraceWrites(a)[1].ok /\ ~TraceWrites(a)[2].ok
        /\ Len(explainCalls[a]) = 1
        /\ explainCalls[a][1].result = "error"

\* ------------------------------------------------------------------------
\* C25: within step i, TRACE(i) is sent before the explanation call for
\* step i starts, the call has returned (or failed) before EXPLANATION(i)
\* is sent, and the pacing wait starts only after EXPLANATION(i) was sent;
\* while a call is out nothing is written and no wait passes
\* ------------------------------------------------------------------------
\* the relay's last explanation call has not returned
CallPending(a) ==
    /\ explainCalls[a] # << >>
    /\ explainCalls[a][Len(explainCalls[a])].result = "pending"

C25_StepOrder ==
    [][\A a \in DOMAIN pc :
          /\ Len(explainCalls'[a]) > Len(explainCalls[a]) =>
                /\ Len(writes[a]) = 2 * i[a] + 1
                /\ IsTrace(writes[a][Len(writes[a])])
                /\ writes[a][Len(writes[a])].ok
                /\ Len(explainCalls[a]) = i[a]
                /\ Len(waits[a]) = i[a]
          /\ (pc[a] = "sendExplanation" /\ writes'[a] # writes[a]) =>
                /\ Len(explainCalls[a]) = i[a] + 1
                /\ ~CallPending(a)
                /\ Len(writes'[a]) = 2 * i[a] + 2
                /\ IsExplanation(writes'[a][Len(writes'[a])])
                /\ writes'[a][Len(writes'[a])].data = explanation[a]
          /\ Len(waits'[a]) > Len(waits[a]) =>
                /\ Len(writes[a]) = 2 * i[a] + 2
                /\ IsExplanation(writes[a][Len(writes[a])])
                /\ writes[a][Len(writes[a])].ok
          /\ CallPending(a) =>
                /\ writes'[a] = writes[a]
                /\ waits'[a] = waits[a]
                /\ i'[a] = i[a]
          /\ \A k \in 1..Len(writes'[a]) :
                IsExplanation(writes'[a][k]) =>
                    explainCalls'[a][k \div 2].result # "pending"]_vars

\* the call for frame 1 is out: TRACE(0), EXPLANATION(0) and TRACE(1) were
\* delivered and one wait has passed; EXPLANATION(1) is held back
C25_Witness ==
    \E a \in DOMAIN pc :
        /\ pc[a] = "explaining" /\ i[a] = 1 /\ CallPending(a)
        /\ Len(writes[a]) = 3 /\ AllOk(writes[a])
        /\ Len(waits[a]) = 1
        /\ explainCalls[a][1].result = "ok"

\* ------------------------------------------------------------------------
\* C26: the trace generator is called once for each create-run request
\* that passes validation, not at all for a rejected one, and never by an
\* attachment
\* ------------------------------------------------------------------------
\* the calls createRun has made by the position its request is at
CallsExpected(c) ==
    IF cpc[c] \in {"idle", "execute"} THEN 0
    ELSE IF RequestStatus(request[c]) # 0 THEN 0
    ELSE 1

C26_GeneratorCalledOnce ==
    [][/\ \A c \in DOMAIN cpc : generatorCalls'[c] = CallsExpected(c)'
       /\ \A a \in DOMAIN pc :
            RelayLocals(a)' # RelayLocals(a) =>
                generatorCalls' = generatorCalls]_vars

\* one request was rejected without a call, the other made its one call;
\* an attachment has streamed the stored run to its end
C26_Witness ==
    \E c \in DOMAIN cpc, d \in DOMAIN cpc, a \in DOMAIN pc :
        /\ Succeeded(c) /\ generatorCalls[c] = 1
        /\ cpc[d] = "done" /\ response[d].status = 400
        /\ generatorCalls[d] = 0
        /\ pc[a] = "closed" /\ runID[a] = response[c].runId
        /\ Len(explainCalls[a]) = 2

\* ------------------------------------------------------------------------
\* C27: streaming leaves currentStep as it was; every attachment, also one
\* made after another attachment of the same run aborted part-way, starts
\* at frame 0 and moves its own cursor one frame at a time
\* ------------------------------------------------------------------------
C27_CurrentStepUntouched ==
    [][/\ \A id \in DOMAIN runs :
            runs'[id].currentStep = runs[id].currentStep
       /\ \A a \in DOMAIN pc :
            /\ (pc[a] = "lookupUnlock" /\ pc'[a] # pc[a]) =>
                  i'[a] = 0 /\ writes'[a] = << >>
            /\ (Found(a)' /\ writes'[a] # << >>
                  /\ RunOf(a)'.trace # << >>) =>
                  /\ IsTrace(writes'[a][1])
                  /\ writes'[a][1].data = RunOf(a)'.trace[1]
            /\ (Found(a) /\ i'[a] # i[a]) =>
                  /\ i'[a] = i[a] + 1
                  /\ \A b \in DOMAIN pc \ {a} : i'[b] = i[b]]_vars

\* one attachment of a two-frame run aborted after frame 0; another
\* attachment of the same run has sent TRACE(0) with frame 0, and
\* currentStep is still 0
C27_Witness ==
    \E a \in DOMAIN pc, b \in DOMAIN pc :
        /\ a # b /\ runID[a] = runID[b]
        /\ RelayState(b) = "Aborted" /\ pc[b] = "closed"
        /\ Len(explainCalls[b]) = 1 /\ Len(RunOf(b).trace) = 2
        /\ pc[a] = "signalLookup" /\ i[a] = 0
        /\ writes[a] = <<Message("TRACE", RunOf(a).trace[1], TRUE)>>
        /\ RunOf(a).currentStep = 0

\* ------------------------------------------------------------------------
\* C28: an attachment only reads the run table: whether it completes or
\* aborts, none of its steps changes the set of runs, a run's trace,
\* currentStep or signal map, and no explanation is kept on a run
\* ------------------------------------------------------------------------
C28_AttachmentReadOnly ==
    [][/\ \A a \in DOMAIN pc :
            RelayLocals(a)' # RelayLocals(a) =>
                runs' = runs /\ issued' = issued
       /\ \A id \in DOMAIN runs' :
            runs'[id] = NewRunState(id, runs'[id].trace)]_vars

\* an attachment completed with a real and a fallback explanation, and its
\* run is as createRun stored it
C28_Witness ==
    \E a \in DOMAIN pc :
        /\ RelayState(a) = "Completed" /\ pc[a] = "closed"
        /\ Len(explainCalls[a]) = 2
        /\ explainCalls[a][1].result = "ok"
        /\ explainCalls[a][2].result = "error"
        /\ writes[a][2].data \in Explanations
        /\ RunOf(a) = NewRunState(runID[a], <<"fA", "fA">>)

\* ------------------------------------------------------------------------
\* C29: the run table only grows: a stored run stays under its identifier
\* in every later state and every later lookup of the identifier finds it,
\* whatever creates, attachments, aborts or failures follow
\* ------------------------------------------------------------------------
\* the relay makes a table lookup in this step
LooksUp(a) ==
    \/ pc[a] = "lookup" /\ pc'[a] = "lookupUnlock"
    \/ pc[a] = "signalLookup" /\ pc'[a] = "signalUnlock"

C29_StoreOnlyGrows ==
    [][/\ DOMAIN runs \subseteq DOMAIN runs'
       /\ Cardinality(DOMAIN runs') >= Cardinality(DOMAIN runs)
       /\ \A c \in DOMAIN cpc :
            Succeeded(c) =>
                /\ response[c].runId \in DOMAIN runs'
                /\ runs'[response[c].runId].runID = response[c].runId
       /\ \A a \in DOMAIN pc :
            (LooksUp(a) /\ runID[a] \in DOMAIN runs) => exists'[a]]_vars

\* after one create-run stored a run, another failed and the attachment
\* has streamed a frame; its second lookup still finds the run
C29_Witness ==
    \E c \in DOMAIN cpc, d \in DOMAIN cpc, a \in DOMAIN pc :
        /\ Succeeded(c) /\ runID[a] = response[c].runId
        /\ cpc[d] = "done" /\ response[d].status = 500
        /\ pc[a] = "signalUnlock" /\ i[a] = 1 /\ exists[a]

\* ------------------------------------------------------------------------
\* C30: every attachment of an existing run ends Completed or Aborted,
\* provided its explanation calls return and its sends return; while an
\* explanation call has not returned the relay stays at that frame, for it
\* sets no timeout on the call
\* ------------------------------------------------------------------------
C30_Termination ==
    /\ \A a \in Concurrent :
          []<>(pc[a] # "explaining") =>
              ((pc[a] = "lookup") ~>
                   (pc[a] = "closed"
                      /\ RelayState(a) \in {"Completed", "Aborted"}))
    /\ [][\A a \in DOMAIN pc :
            (pc[a] = "explaining" /\ pc'[a] # "explaining") =>
                /\ CallPending(a) /\ ~CallPending(a)'
                /\ pc'[a] = "sendExplanation"]_vars

\* both attachments have ended: one Completed after its two frames, the
\* other Aborted after its viewer left
C30_Witness ==
    \E a \in DOMAIN pc, b \in DOMAIN pc :
        /\ pc[a] = "closed" /\ RelayState(a) = "Completed"
        /\ Len(explainCalls[a]) = 2
        /\ pc[b] = "closed" /\ RelayState(b) = "Aborted"
        /\ FailedStreamWrite(b)

\* ------------------------------------------------------------------------
\* C31: an attach request without a run identifier is rejected before the
\* upgrade: there is no connection, no relay, no message of any type, no
\* explanation call, no wait and no use of the run table
\* ------------------------------------------------------------------------
MissingRunId(a) == pc[a] # "idle" /\ runID[a] = ""

C31_MissingRunIdRejected ==
    \A a \in DOMAIN pc :
        /\ MissingRunId(a) =>
              /\ pc[a] = "rejected"
              /\ RelayState(a) = "Idle"
              /\ ~connOpen[a]
              /\ writes[a] = << >>
              /\ explainCalls[a] = << >>
              /\ waits[a] = << >>
              /\ ~exists[a]
              /\ ~HoldsLock(Relay(a))
        /\ pc[a] = "rejected" => runID[a] = ""

\* a request without runId has been rejected although a run is stored
C31_Witness ==
    \E a \in DOMAIN pc, c \in DOMAIN cpc :
        /\ MissingRunId(a) /\ pc[a] = "rejected"
        /\ Succeeded(c) /\ cpc[c] = "done"

\* ------------------------------------------------------------------------
\* C32: in the viewer client a pause closes the stream connection and a
\* resume only sets the status back to running, opening no connection;
\* once a run has been paused and resumed no further message is received
\* and the status does not become completed
\* ------------------------------------------------------------------------
\* the session is still at its first run
FirstRun == \A k \in ViewerRuns : k > 1 => vpc[k] = "idle"

\* the first run has been paused and resumed: handleRun set the status to
\* running before the pause, so only the resume can have set it again
Resumed == FirstRun /\ pauseStartRef /\ runStatus = "running"

PauseStep == runStatus = "running" /\ runStatus' = "paused"

ResumeStep == runStatus = "paused" /\ runStatus' = "running" /\ vpc' = vpc

EndWrites(a) == SelectSeq(writes[a], IsEnd)

C33_WaitAfterLastFrame ==
    \A a \in DOMAIN pc :
        Found(a) =>
            /\ (pc[a] = "sendEnd" \/ EndWrites(a) # << >>) =>
                   Len(waits[a]) = Len(RunOf(a).trace)
            /\ RelayState(a) = "Completed" =>
                   /\ Len(waits[a]) = Len(RunOf(a).trace)
                   /\ DeliveredEnd(a)
            /\ (Returned(a) /\ ~DeliveredEnd(a)) => RelayState(a) = "Aborted"
            /\ Len(waits[a]) <= Len(RunOf(a).trace)

\* both frames were delivered and the viewer left during the wait after
\* the last one: the END write failed and the attachment is Aborted
C33_Witness ==
    \E a \in DOMAIN pc :
        /\ pc[a] = "closed" /\ Found(a)
        /\ Len(RunOf(a).trace) = 2
        /\ Len(StreamSent(a)) = 4
        /\ Len(waits[a]) = 2
        /\ EndWrites(a) # << >> /\ ~DeliveredEnd(a)
        /\ RelayState(a) = "Aborted"

\* ------------------------------------------------------------------------
\* C34: a run with an empty trace can be created, and an attachment to it
\* writes exactly one END, no TRACE and no EXPLANATION, makes no
\* explanation call and no wait, and ends Completed when the END arrives
\* ------------------------------------------------------------------------
ExplanationWrites(a) == SelectSeq(writes[a], IsExplanation)

\* the trace generator answered create-run c with success and no frames
EmptyTraceReturned(c) ==
    /\ cpc[c] \in {"newRun", "store", "unlock", "done"}
    /\ generatorCalls[c] > 0
    /\ createErr[c] = None
    /\ Len(trace[c]) = 0

C34_EmptyTrace ==
    /\ \A c \in DOMAIN cpc :
          (EmptyTraceReturned(c) /\ cpc[c] = "done") =>
              /\ Succeeded(c)
              /\ runs[response[c].runId].trace = << >>
    /\ \A a \in DOMAIN pc :
          (Found(a) /\ Len(RunOf(a).trace) = 0) =>
              /\ TraceWrites(a) = << >>
              /\ ExplanationWrites(a) = << >>
              /\ explainCalls[a] = << >>
              /\ waits[a] = << >>
              /\ pc[a] \in {"sendEnd", "sendError", "close", "closed"}
              /\ Len(EndWrites(a)) = IF pc[a] = "sendEnd" THEN 0 ELSE 1
              /\ DeliveredEnd(a) =>
                     /\ RelayState(a) = "Completed"
                     /\ Len(writes[a]) = 1
              /\ (Returned(a) /\ ~DeliveredEnd(a)) =>
                     RelayState(a) = "Aborted"

\* a run created with an empty trace has been attached to and the
\* attachment ended Completed after its single END
C34_Witness ==
    \E c \in DOMAIN cpc, a \in DOMAIN pc :
        /\ EmptyTraceReturned(c) /\ Succeeded(c)
        /\ runID[a] = response[c].runId
        /\ pc[a] = "closed" /\ Found(a)
        /\ RelayState(a) = "Completed"
        /\ Len(writes[a]) = 1 /\ DeliveredEnd(a)

====
